---- MODULE Spec2Model ----
(***************************************************************************)
(* A model of the random-walk position generator of chess_walk:            *)
(*   src/src/walker.py      generate_and_save_positions and its helpers    *)
(*   src/src/divergence.py  find_divergence and its statistical tests      *)
(*   src/src/api.py         the log lines get_move_stats emits             *)
(*   src/src/logger.py      the MemoryHandler whose buffer the walk reads  *)
(*                                                                         *)
(* Units.  Fractions in [0,1] (freq, win_rate) are held as integers in     *)
(* thousandths; "White %" (= win_rate * 100) is therefore held in          *)
(* thousandths of a percentage point.  Chi-square statistics are held in   *)
(* thousandths as well.                                                    *)
(***************************************************************************)
EXTENDS Integers, Sequences, FiniteSets, TLC

(***************************************************************************)
(* Bounds of the model.                                                    *)
(***************************************************************************)
MaxMinPly == 2      \* min_ply ranges over 0..MaxMinPly
MaxMaxPly == 3      \* max_ply ranges over 0..MaxMaxPly
AltMinGames == 2    \* a second, non-shipped value of the game-count floor

(***************************************************************************)
(* Program constants.                                                      *)
(***************************************************************************)
MIN_GAMES == 0                  \* parameters.py
MIN_WIN_RATE_DELTA == 5000      \* 5.0 percentage points, in thousandths
MIN_MOVE_GAMES == 5             \* the literal 5 of find_divergence
P_THRESHOLD == 100              \* p_threshold = 0.10, in thousandths
LogWindow == 5                  \* buffer[-5:]
SmallSort == 17                 \* rows the default sort still insertion-sorts

\* the orders the default sort can leave rows of equal Freq in
TieOrders == {"kept", "reversed"}

\* Python's optional values: None is the empty sequence, a value x is <<x>>
None == <<>>

Some(x) == <<x>>

\* choose_weighted_move returning None
NoMove == "None"

(***************************************************************************)
(* Generic sequence helpers.                                               *)
(***************************************************************************)
RECURSIVE SumSeq(_)
SumSeq(s) == IF s = <<>> THEN 0 ELSE Head(s) + SumSeq(Tail(s))

RECURSIVE Flatten(_)
Flatten(ss) == IF ss = <<>> THEN <<>> ELSE Head(ss) \o Flatten(Tail(ss))

\* Python's s[-n:]
LastN(s, n) == IF Len(s) <= n THEN s ELSE SubSeq(s, Len(s) - n + 1, Len(s))

Abs(x) == IF x < 0 THEN -x ELSE x

Max0(x) == IF x < 0 THEN 0 ELSE x

Range(s) == {s[i] : i \in 1..Len(s)}

(***************************************************************************)
(* The chess library, abstracted.  A board is the sequence of moves pushed *)
(* from STARTING_FEN; its FEN is identified with that sequence.  White is  *)
(* to move on an even-length board.  push_uci raises on a move that is not *)
(* legal for the side to move.                                             *)
(***************************************************************************)
WhiteMoves == {"w1", "w2"}
BlackMoves == {"b1", "b2"}

\* a push that does not check legality
AnyMoveLegal(b) == WhiteMoves \cup BlackMoves

LegalMoves(b) == IF Len(b) % 2 = 0 THEN WhiteMoves ELSE BlackMoves

Fen(board) == board

(***************************************************************************)
(* Provider samples: what get_move_stats returns, (moves, total).  A move  *)
(* is {uci, games_total, win_rate, freq}.  (None, 0) and ([], 0) are both  *)
(* the empty move list here: the callers only test "not moves".            *)
(***************************************************************************)
Mv(u, g, w, f) == [uci |-> u, games_total |-> g, win_rate |-> w, freq |-> f]

NoData == [moves |-> <<>>, total |-> 0]

\* a base-like sample: the first move is played most and wins least
SampleA(m1, m2) ==
    [moves |-> <<Mv(m1, 12, 400, 667), Mv(m2, 6, 600, 333)>>, total |-> 18]

\* a target-like sample: the other move is played most
SampleB(m1, m2) ==
    [moves |-> <<Mv(m2, 12, 600, 800), Mv(m1, 3, 400, 200)>>, total |-> 15]

\* a sample of a single game
SampleLow(m1) == [moves |-> <<Mv(m1, 1, 0, 1000)>>, total |-> 1]

Samples ==
    {NoData,
     SampleA("w1", "w2"), SampleB("w1", "w2"), SampleLow("w1"),
     SampleA("b1", "b2"), SampleB("b1", "b2")}

(***************************************************************************)
(* State.                                                                  *)
(*   base_rating, target_rating, min_ply, max_ply                          *)
(*       the arguments of generate_and_save_positions                      *)
(*   min_games   the value of parameters.MIN_GAMES in force                *)
(*   pc          position in generate_and_save_positions                   *)
(*   ply         the loop variable of  for ply in range(max_ply)           *)
(*   board       chess.Board                                               *)
(*   added_positions   the accumulated list                                *)
(*   store       output/positions.csv: None (no file) or Some(its rows)    *)
(*   buffer      logger.handlers[0].buffer (its last LogWindow records)    *)
(*   returned    Some(the list returned to the caller), None before that   *)
(*   exit        how the walk ended: "running" while it has not, then      *)
(*               "validation", "no_move", "missing_data", "completed" or   *)
(*               "raised"                                                  *)
(*   sampled     history: the 1-based plies a move was requested for       *)
(*   analyzed    history: the 1-based plies the analyzer was called at     *)
(*   diverged    history: the plies at which it returned a divergence      *)
(*   outcome     history: Some(record of the analyzer call made in the     *)
(*               current loop iteration), None if none was made            *)
(*   root        history: Some(what the provider answered for the starting *)
(*               position), None before the validation                     *)
(*   saves       history: the number of calls of save_position_to_csv      *)
(*   call        the arguments of the function called on its own: the     *)
(*               provider's answers a find_divergence or choose_weighted_  *)
(*               move call receives; None when no such call is studied     *)
(*   results     what the invocations made with call returned, in order    *)
(*   draws       the number of random.choices draws made                   *)
(*   pending     Some(what evaluate_divergence returned) between its       *)
(*               return and the read of the log buffer, else None          *)
(*   solo        history: Some(the abort decision taken and the one the    *)
(*               walk's own records alone give) after a read of the buffer *)
(*   before      history: positions.csv before the last save               *)
(*   saved       history: the (FEN, CohortPair) of each position saved     *)
(*   bank        output/puzzles.json: None (no file) or Some(its text)     *)
(*   written     history: the puzzles the bank calls were given            *)
(*   sort_ties   how the installed sort orders rows of equal key in a      *)
(*               table too long for its insertion sort: "kept" (the        *)
(*               order they came in) or "reversed"                         *)
(*   main_pc     position in generate_positions.main: "idle" when it does  *)
(*               not run, else "start", "walks", "sort", "reorganize",     *)
(*               "count", "done" or "raised"                               *)
(*   num_walks   the argument of main                                      *)
(*   walks_done  the walks main has made                                   *)
(*   initial_puzzle_count, new_positions_count, total_puzzle_count         *)
(*               the locals of main; -1 before they are assigned           *)
(*   reorganized output/positions_reorganized.csv: None or Some(its rows)  *)
(***************************************************************************)
VARIABLES base_rating, target_rating, min_ply, max_ply, min_games,
          pc, ply, board, added_positions, store, buffer, returned, exit,
          sampled, analyzed, diverged, outcome, root, saves,
          call, results, draws, pending, solo, before, saved, bank, written,
          sort_ties,
          main_pc, num_walks, walks_done, initial_puzzle_count, new_positions_count,
          total_puzzle_count, reorganized

vars == <<base_rating, target_rating, min_ply, max_ply, min_games,
          pc, ply, board, added_positions, store, buffer, returned, exit,
          sampled, analyzed, diverged, outcome, root, saves,
          call, results, draws, pending, solo, before, saved, bank, written,
          sort_ties,
          main_pc, num_walks, walks_done, initial_puzzle_count, new_positions_count,
          total_puzzle_count, reorganized>>

\* what the installed libraries fix for the life of the process
runtime == <<sort_ties>>

\* the state of scripts/generate_positions.py
script == <<main_pc, num_walks, walks_done, initial_puzzle_count, new_positions_count,
            total_puzzle_count, reorganized>>

\* the state of the functions studied on their own
elsewhere == <<call, results, draws, before, saved, bank, written>>

\* the state of a walk that shares its process with other walks
sharing == <<pending, solo>>

history == <<analyzed, diverged, outcome, root, saves>>

args == <<base_rating, target_rating, min_ply, max_ply, min_games>>

(***************************************************************************)
(* The logger.  A log message is the sequence of its words; text that      *)
(* comes from outside the program (FENs, ratings, URLs, response bodies)   *)
(* is one opaque word in angle brackets.  The MemoryHandler has no target, *)
(* so flush() never clears its buffer; the walk reads only buffer[-5:],    *)
(* and the model keeps exactly those last LogWindow records.               *)
(***************************************************************************)
Emit(buf, msgs) == LastN(buf \o msgs, LogWindow)

\* Python's  pat in msg  on the words of a message (case-sensitive)
Contains(msg, pat) ==
    \E i \in 1..(Len(msg) - Len(pat) + 1) : SubSeq(msg, i, i + Len(pat) - 1) = pat

MissingMoveData == <<"Missing", "move", "data">>

\* the records get_move_stats logs on its non-hyphen path
GetMoveStatsLogs(sample) ==
    << <<"API", "Request", "URL:", "<url>">>,
       <<"Fetching", "move", "stats", "for", "position:", "<fen>...", "(Rating:", "<ratings>)">>,
       <<"API", "Response", "Status:", "<status>">>,
       <<"API", "Response", "Data:", "<data>...">> >>
    \o (IF sample.moves = <<>>
        THEN << <<"No", "moves", "found", "for", "position:", "<fen>">> >>
        ELSE << <<"Found", "<total>", "games", "and", "<n>", "different", "moves">> >>
             \o [i \in 1..(IF Len(sample.moves) < 3 THEN Len(sample.moves) ELSE 3) |->
                    <<"Move:", "<move>,", "Frequency:", "<freq>">>])

(***************************************************************************)
(* divergence.py                                                           *)
(***************************************************************************)
\* a table that keeps win_rate as the fraction it is given as
build_move_df_fractions(moves) ==
    [i \in 1..Len(moves) |->
        [Row |-> i - 1,
         Move |-> moves[i].uci,
         Games |-> moves[i].games_total,
         WhitePct |-> moves[i].win_rate,
         Freq |-> moves[i].freq]]

\* build_move_df: one row per move, "White %" = win_rate * 100; Row is the
\* label the DataFrame's default index gives the row, which sorting keeps
build_move_df(moves) ==
    [i \in 1..Len(moves) |->
        [Row |-> i - 1,
         Move |-> moves[i].uci,
         Games |-> moves[i].games_total,
         WhitePct |-> moves[i].win_rate * 100,
         Freq |-> moves[i].freq]]

MovesOf(df) == {df[i].Move : i \in 1..Len(df)}

\* a count that keeps growing with the invocations already made
GamesAccumulated(df, move) ==
    (Len(results) + 1)
    * SumSeq([i \in 1..Len(df) |-> IF df[i].Move = move THEN df[i].Games ELSE 0])

\* a count that gives one game to a move the table does not list
GamesOrOne(df, move) ==
    IF move \in MovesOf(df)
    THEN SumSeq([i \in 1..Len(df) |-> IF df[i].Move = move THEN df[i].Games ELSE 0])
    ELSE 1

\* df[df["Move"] == move]["Games"].sum() if move in df["Move"].values else 0
GamesOf(df, move) == SumSeq([i \in 1..Len(df) |-> IF df[i].Move = move THEN df[i].Games ELSE 0])

\* the first row of df whose Move is move:  df[df["Move"] == move].iloc[0]
FirstRow(df, move) == df[CHOOSE i \in 1..Len(df) : df[i].Move = move /\ \A j \in 1..(i - 1) : df[j].Move # move]

RECURSIVE SumOver(_, _)
SumOver(S, f) ==
    IF S = {} THEN 0
    ELSE LET x == CHOOSE y \in S : TRUE IN f[x] + SumOver(S \ {x}, f)

\* the quantiles of a threshold of 0.50
Chi2Median(dof, p_threshold) ==
    CASE dof = 1 -> 455
      [] dof = 2 -> 1386
      [] dof = 3 -> 2366
      [] OTHER -> 3357

\* scipy's chi2.sf(chi2, dof) < p_threshold, as  chi2 > the quantile of
\* 1 - p_threshold, for p_threshold = 0.10 (thousandths)
Chi2Critical(dof, p_threshold) ==
    LET quantile == <<2706, 4605, 6251, 7779, 9236, 10645, 12017, 13362, 14684, 15987,
                      17275, 18549, 19812, 21064, 22307, 23542, 24769, 25989, 27204, 28412>>
    IN IF dof \in 1..Len(quantile) THEN quantile[dof] ELSE quantile[Len(quantile)]

\* scipy.stats.chi2_contingency on the 2 x M table (Yates' correction when dof = 1)
\* returns the statistic in thousandths
Chi2Statistic(all_moves, baseG, targetG) ==
    LET R1 == SumOver(all_moves, baseG)
        R2 == SumOver(all_moves, targetG)
        N == R1 + R2
        dof == Cardinality(all_moves) - 1
        Term(O, R, C) ==
            IF dof = 1
            THEN LET x == Max0(2 * Abs(N * O - R * C) - N)
                 IN (x * x * 1000) \div (4 * N * R * C)
            ELSE LET d == N * O - R * C
                 IN (d * d * 1000) \div (N * R * C)
    IN IF dof = 0 THEN 0
       ELSE SumOver(all_moves,
                [m \in all_moves |->
                    Term(baseG[m], R1, baseG[m] + targetG[m])
                    + Term(targetG[m], R2, baseG[m] + targetG[m])])

\* check_frequency_divergence: (p_value < p_threshold, p_value); the p-value is
\* carried as the statistic and its degrees of freedom.  chi2_contingency
\* raises ValueError when an expected frequency of the table is zero.
check_frequency_divergence(base_df, target_df) ==
    LET all_moves == MovesOf(base_df) \cup MovesOf(target_df)
        baseG == [m \in all_moves |-> GamesOf(base_df, m)]
        targetG == [m \in all_moves |-> GamesOf(target_df, m)]
        dof == Cardinality(all_moves) - 1
        chi2 == Chi2Statistic(all_moves, baseG, targetG)
        zero_expected ==
            \/ SumOver(all_moves, baseG) = 0
            \/ SumOver(all_moves, targetG) = 0
            \/ \E m \in all_moves : baseG[m] + targetG[m] = 0
    IN IF zero_expected
       THEN [raises |-> TRUE, differs |-> FALSE, p_value |-> [chi2 |-> 0, dof |-> dof]]
       ELSE [raises |-> FALSE,
             differs |-> dof > 0 /\ chi2 > Chi2Critical(dof, P_THRESHOLD),
             p_value |-> [chi2 |-> chi2, dof |-> dof]]

\* statsmodels' proportions_ztest(count, nobs, alternative="two-sided") on two
\* samples: the pooled-variance z statistic, returned squared and in
\* thousandths; counts are in hundredths of a game.  nan is TRUE when the
\* pooled proportion is 0 or 1 (the statistic and the p-value are nan).
proportions_ztest(count1, nobs1, count2, nobs2) ==
    LET d == count1 * nobs2 - count2 * nobs1
        pooled == count1 + count2
        rest == 100 * (nobs1 + nobs2) - pooled
        den == nobs1 * nobs2 * pooled * rest
    IN IF den = 0
       THEN [nan |-> TRUE, z2 |-> 0]
       ELSE [nan |-> FALSE, z2 |-> (d * d * (nobs1 + nobs2)) \div (den \div 1000)]

\* row["White %"] * row["Games"] / 100, in hundredths of a game
WinCount(row) == (row.WhitePct * row.Games) \div 1000

\* check_win_rate_difference(base_df, target_df, move): the z-test of one
\* move's win rate between the two cohorts; (target_better, p_value), the
\* p-value carried as the squared statistic, None on the return of line 75.
\* find_divergence does not call it.
check_win_rate_difference(base_df, target_df, move) ==
    IF \/ move \notin MovesOf(base_df)
       \/ move \notin MovesOf(target_df)
       \/ FirstRow(base_df, move).Games < MIN_MOVE_GAMES
       \/ FirstRow(target_df, move).Games < MIN_MOVE_GAMES
    THEN [target_better |-> FALSE, p_value |-> None]
    ELSE LET base_row == FirstRow(base_df, move)
             target_row == FirstRow(target_df, move)
             z == proportions_ztest(WinCount(base_row), base_row.Games,
                                    WinCount(target_row), target_row.Games)
         IN [target_better |-> /\ ~z.nan
                               /\ z.z2 > Chi2Critical(1, P_THRESHOLD)
                               /\ target_row.WhitePct > base_row.WhitePct,
             p_value |-> Some(z)]

\* the table left in the provider's order
ProviderOrder(df) == df

\* the rows by descending Freq, each row inserted after the rows whose Freq
\* is >= its own (ties keep the provider's order) or, when reversed, after
\* the rows whose Freq is > its own (ties end in the opposite order)
RECURSIVE InsertionSortDesc(_, _)
InsertionSortDesc(df, reversed) ==
    IF df = <<>> THEN <<>>
    ELSE LET rest == InsertionSortDesc(SubSeq(df, 1, Len(df) - 1), reversed)
             r == df[Len(df)]
             k == Cardinality({i \in 1..Len(rest) :
                                 IF reversed THEN rest[i].Freq > r.Freq
                                             ELSE rest[i].Freq >= r.Freq})
         IN SubSeq(rest, 1, k) \o <<r>> \o SubSeq(rest, k + 1, Len(rest))

\* df.sort_values(by="Freq", ascending=False) with the default
\* kind="quicksort", which is not a stable sort: a table of at most SmallSort
\* rows is insertion-sorted and ties keep the provider's order; in a longer
\* table the order of rows of equal Freq is the installed sort's, sort_ties
SortByFreqDesc(df) ==
    InsertionSortDesc(df, Len(df) > SmallSort /\ sort_ties = "reversed")

\* a test of the base sample only
NoBaseMovesData(base_moves, target_moves) == base_moves = <<>>

\* if not base_moves or not target_moves
NoMovesData(base_moves, target_moves) == base_moves = <<>> \/ target_moves = <<>>

\* a floor applied to the base total only
BaseBelowFloor(base_total, target_total) == base_total < min_games

\* if base_total < MIN_GAMES or target_total < MIN_GAMES
GamesBelowFloor(base_total, target_total) ==
    base_total < min_games \/ target_total < min_games

\* find_divergence, given the provider's answers to its two get_move_stats
\* calls.  result is None or the returned dict; class names the return taken
\* ("ValueError" when chi2_contingency raises); steps are the tests evaluated,
\* in order; logs are the records logged, in order.
find_divergence(fen, base_r, target_r, base, target) ==
    LET head == << <<"Analyzing", "position", "for", "divergence", "between", "ratings",
                     "<base_rating>", "and", "<target_rating>">>,
                   <<"Position:", "<fen>">> >>
                \o GetMoveStatsLogs(base) \o GetMoveStatsLogs(target)
        base_df0 == build_move_df(base.moves)
        target_df0 == build_move_df(target.moves)
        freq == check_frequency_divergence(base_df0, target_df0)
        dfs == head \o << <<"Base", "DataFrame:", "<base_df>">>,
                          <<"Target", "DataFrame:", "<target_df>">>,
                          <<"Chi-square", "p-value", "for", "frequency:", "<p_freq>",
                            "(significant:", "<freq_differs>)">> >>
        base_df == SortByFreqDesc(base_df0)
        target_df == SortByFreqDesc(target_df0)
        top_base_move == base_df[1].Move
        top_target_move == target_df[1].Move
        base_top_win == base_df[1].WhitePct
        in_base == top_target_move \in MovesOf(base_df)
        base_win == IF in_base THEN FirstRow(base_df, top_target_move).WhitePct ELSE 0
        base_games == IF in_base THEN FirstRow(base_df, top_target_move).Games ELSE 0
    IN IF NoMovesData(base.moves, target.moves)
       THEN [result |-> None, class |-> "DataUnavailable",
             steps |-> <<"data">>,
             logs |-> head \o << <<"No", "moves", "data", "for", "<fen>", "at", "rating", "<rating>">> >>]
       ELSE IF GamesBelowFloor(base.total, target.total)
       THEN [result |-> None, class |-> "InsufficientGames",
             steps |-> <<"data", "games">>,
             logs |-> head \o << <<"Insufficient", "games:", "base=<base_total>,",
                                   "target=<target_total>,", "min", "required=<MIN_GAMES>">> >>]
       ELSE IF freq.raises
       THEN [result |-> None, class |-> "ValueError",
             steps |-> <<"data", "games", "chi2">>,
             logs |-> head \o << <<"Base", "DataFrame:", "<base_df>">>,
                                 <<"Target", "DataFrame:", "<target_df>">> >>]
       ELSE IF ~freq.differs
       THEN [result |-> None, class |-> "NotDivergent",
             steps |-> <<"data", "games", "chi2">>,
             logs |-> dfs \o << <<"No", "significant", "frequency", "divergence">> >>]
       ELSE IF top_base_move = top_target_move
       THEN [result |-> None, class |-> "NotDivergent",
             steps |-> <<"data", "games", "chi2", "top">>,
             logs |-> dfs \o << <<"No", "divergence", "-", "same", "top", "move", "in",
                                  "both", "rating", "bands">> >>]
       ELSE IF base_win - base_top_win >= MIN_WIN_RATE_DELTA /\ base_games >= MIN_MOVE_GAMES
       THEN [result |-> Some([fen |-> fen,
                         base_rating |-> base_r,
                         target_rating |-> target_r,
                         base_df |-> base_df,
                         target_df |-> target_df,
                         top_base_move |-> top_base_move,
                         top_target_move |-> top_target_move,
                         p_freq |-> freq.p_value,
                         base_win_for_target_move |-> base_win,
                         base_win_for_top_move |-> base_top_win]),
             class |-> "Divergent",
             steps |-> <<"data", "games", "chi2", "top", "delta">>,
             logs |-> dfs \o << <<"Base", "cohort", "win", "rate", "for", "top", "move", "<...>">>,
                                <<"Divergence", "detected!", "Target", "prefers",
                                  "<top_target_move>,", "outperforms", "base", "top", "move">> >>]
       ELSE [result |-> None, class |-> "NotDivergent",
             steps |-> <<"data", "games", "chi2", "top", "delta">>,
             logs |-> dfs \o << <<"Target", "move", "<top_target_move>", "not", "better", "than",
                                  "base", "top", "move", "<...>">> >>]
(***************************************************************************)
(* scripts/migrate_puzzles_threshold.py                                    *)
(***************************************************************************)
\* the last row of df whose Move is move (a later dict assignment replaces
\* an earlier one)
LastRow(df, move) ==
    df[CHOOSE i \in 1..Len(df) : df[i].Move = move /\ \A j \in (i + 1)..Len(df) : df[j].Move # move]

\* extract_puzzle_moves_and_stats, for one cohort's rows: a dict from Move to
\* {win_rate: White %, games, freq}
extract_puzzle_moves_and_stats(data) ==
    [m \in MovesOf(data) |->
        [win_rate |-> LastRow(data, m).WhitePct,
         games |-> LastRow(data, m).Games,
         freq |-> LastRow(data, m).Freq]]

\* max(moves.keys(), key=lambda m: moves[m]['freq']) on the dict built from
\* data: the first key, in insertion order, of the largest freq
MaxFreqKey(data) ==
    LET moves == extract_puzzle_moves_and_stats(data)
        keys == {i \in 1..Len(data) : \A j \in 1..(i - 1) : data[j].Move # data[i].Move}
        first == CHOOSE i \in keys :
                    /\ \A j \in keys : moves[data[j].Move].freq <= moves[data[i].Move].freq
                    /\ \A j \in keys : j < i => moves[data[j].Move].freq < moves[data[i].Move].freq
    IN data[first].Move

\* evaluate_puzzle_with_new_threshold on the dicts of the two cohorts' rows
evaluate_puzzle_with_new_threshold(base_data, target_data) ==
    IF base_data = <<>> \/ target_data = <<>>
    THEN FALSE
    ELSE LET base_moves == extract_puzzle_moves_and_stats(base_data)
             base_top_move == MaxFreqKey(base_data)
             target_top_move == MaxFreqKey(target_data)
         IN IF base_top_move = target_top_move
            THEN FALSE
            ELSE IF target_top_move \notin DOMAIN base_moves
            THEN FALSE
            ELSE /\ base_moves[target_top_move].win_rate - base_moves[base_top_move].win_rate
                        >= MIN_WIN_RATE_DELTA
                 /\ base_moves[target_top_move].games >= 5

(***************************************************************************)
(* walker.py                                                               *)
(***************************************************************************)
\* f"{base_rating}-{target_rating}"
CohortPairOf(base_r, target_r) == <<base_r, "-", target_r>>

\* a sampler that applies no floor to the total
choose_without_floor(sample) ==
    IF sample.moves = <<>>
    THEN {NoMove}
    ELSE IF \A i \in 1..Len(sample.moves) : sample.moves[i].freq = 0
    THEN {"ZeroDivisionError"}
    ELSE {sample.moves[i].uci : i \in {j \in 1..Len(sample.moves) : sample.moves[j].freq > 0}}

\* choose_weighted_move, given the provider's answer: the values it can
\* return.  random.choices never draws a move of weight 0, and
\* f ** (1 / temperature) is 0 exactly when f is 0; when every weight is 0
\* the normalisation divides by zero.
choose_weighted_move(sample) ==
    IF sample.moves = <<>> \/ sample.total < min_games
    THEN {NoMove}
    ELSE IF \A i \in 1..Len(sample.moves) : sample.moves[i].freq = 0
    THEN {"ZeroDivisionError"}
    ELSE {sample.moves[i].uci : i \in {j \in 1..Len(sample.moves) : sample.moves[j].freq > 0}}

RECURSIVE Power(_, _)
Power(x, n) == IF n = 0 THEN 1 ELSE x * Power(x, n - 1)

\* frequencies = [move["freq"] for move in moves]
frequencies(sample) == [i \in 1..Len(sample.moves) |-> sample.moves[i].freq]

\* weights that leave the temperature out
unscaled_weights(sample, inv_temperature) == frequencies(sample)

\* scaled_weights = [f ** (1 / temperature) for f in frequencies], for a
\* temperature whose inverse is a whole number; in thousandths to the power
\* inv_temperature
scaled_weights(sample, inv_temperature) ==
    [i \in 1..Len(sample.moves) |-> Power(frequencies(sample)[i], inv_temperature)]

\* normalized_weights = [w / total_weight for w in scaled_weights], each
\* weight the fraction num / den
normalized_weights(sample, inv_temperature) ==
    LET total_weight == SumSeq(scaled_weights(sample, inv_temperature))
    IN [i \in 1..Len(sample.moves) |->
            [num |-> scaled_weights(sample, inv_temperature)[i], den |-> total_weight]]

\* move_choices = [move["uci"] for move in moves]
move_choices(sample) == [i \in 1..Len(sample.moves) |-> sample.moves[i].uci]

\* the number of random.choices calls choose_weighted_move makes (line 48):
\* none on the return of line 33, none when line 45 raises
RandomDraws(sample) ==
    IF sample.moves = <<>> \/ sample.total < min_games
    THEN 0
    ELSE IF \A i \in 1..Len(sample.moves) : sample.moves[i].freq = 0
    THEN 0
    ELSE 1

\* the arguments of random.choices(move_choices, weights=normalized_weights,
\* k=1) at line 48; None when the call is not reached
DrawArguments(sample, inv_temperature) ==
    IF RandomDraws(sample) = 0
    THEN None
    ELSE Some([population |-> move_choices(sample),
               weights |-> normalized_weights(sample, inv_temperature)])

ChooseWeightedMoveLogs(sample) ==
    GetMoveStatsLogs(sample)
    \o (IF sample.moves = <<>> \/ sample.total < min_games
        THEN << <<"Insufficient", "data:", "moves=<bool>,", "total=<total>">> >>
        ELSE << <<"Moves:", "<moves>,", "Scaled", "Weights:", "<weights>,", "Selected",
                  "move:", "<chosen_move>">> >>)

\* a validation that looks at the base cohort only
validate_base_only(base, target) ==
    ~(base.moves = <<>> \/ base.total < min_games)

\* validate_initial_position, given the provider's two answers
validate_initial_position(base, target) ==
    ~(base.moves = <<>> \/ target.moves = <<>>
      \/ base.total < min_games \/ target.total < min_games)

\* evaluate_divergence: find_divergence wrapped in its three log records
evaluate_divergence(fen, base_r, target_r, p, base, target) ==
    LET d == find_divergence(fen, base_r, target_r, base, target)
    IN [result |-> d.result,
        class |-> d.class,
        logs |-> << <<"Evaluating", "divergence", "at", "ply", "<ply>">> >>
                 \o d.logs
                 \o (IF d.result # None
                     THEN << <<"Snapshot", "at", "ply", "<ply>:", "divergence", "found", "with",
                               "top_base_move=<...>,", "top_target_move=<...>">> >>
                     ELSE << <<"Snapshot", "at", "ply", "<ply>:", "no", "divergence", "found">> >>)]

\* create_position_data (the win/draw/loss triples are left out)
create_position_data(divergence, base_r, target_r, p) ==
    [fen |-> divergence.fen,
     base_rating |-> base_r,
     target_rating |-> target_r,
     CohortPair |-> CohortPairOf(base_r, target_r),
     ply |-> p,
     base_top_moves |-> [i \in 1..Len(divergence.base_df) |-> divergence.base_df[i].Move],
     base_freqs |-> [i \in 1..Len(divergence.base_df) |-> divergence.base_df[i].Freq],
     target_top_moves |-> [i \in 1..Len(divergence.target_df) |-> divergence.target_df[i].Move],
     target_freqs |-> [i \in 1..Len(divergence.target_df) |-> divergence.target_df[i].Freq]]

\* one row of positions.csv
CsvRow(cohort, r, fen, rating, position_idx, p, pair) ==
    [Cohort |-> cohort, Row |-> r.Row, PositionIdx |-> position_idx, Move |-> r.Move,
     Games |-> r.Games,
     WhitePct |-> r.WhitePct, Freq |-> r.Freq, FEN |-> fen, Rating |-> rating, Ply |-> p,
     CohortPair |-> pair]

\* build_position_dataframe: the base rows, then the target rows
build_position_dataframe(divergence, fen, base_r, target_r, position_idx, p) ==
    [i \in 1..Len(divergence.base_df) |->
        CsvRow("base", divergence.base_df[i], fen, base_r, position_idx, p,
               CohortPairOf(base_r, target_r))]
    \o [i \in 1..Len(divergence.target_df) |->
        CsvRow("target", divergence.target_df[i], fen, target_r, position_idx, p,
               CohortPairOf(base_r, target_r))]

\* the PositionIdx of the first row of the file
FirstPositionIdx(rows) == rows[1].PositionIdx

MaxPositionIdx(rows) ==
    CHOOSE m \in {rows[i].PositionIdx : i \in 1..Len(rows)} :
        \A i \in 1..Len(rows) : rows[i].PositionIdx <= m

\* a save that appends without looking for the position in the file
save_without_duplicate_check(position_df, file) ==
    IF file # None
    THEN LET idx == IF file[1] # <<>>
                    THEN 1 + (CHOOSE m \in {file[1][i].PositionIdx : i \in 1..Len(file[1])} :
                                \A i \in 1..Len(file[1]) : file[1][i].PositionIdx <= m)
                    ELSE 0
         IN Some(file[1] \o [i \in 1..Len(position_df) |->
                                [position_df[i] EXCEPT !.PositionIdx = idx]])
    ELSE Some([i \in 1..Len(position_df) |-> [position_df[i] EXCEPT !.PositionIdx = 0]])

\* save_position_to_csv: the file's rows afterwards (a file that cannot be
\* read is not modelled)
save_position_to_csv(position_df, file) ==
    IF file # None
    THEN LET existing_df == file[1]
             max_existing_idx == IF existing_df # <<>> THEN MaxPositionIdx(existing_df) ELSE -1
             puzzle_idx == max_existing_idx + 1
             numbered == [i \in 1..Len(position_df) |->
                             [position_df[i] EXCEPT !.PositionIdx = puzzle_idx]]
             duplicate(row) ==
                 /\ existing_df # <<>>
                 /\ \E j \in 1..Len(existing_df) :
                        /\ existing_df[j].FEN = row.FEN
                        /\ existing_df[j].CohortPair = row.CohortPair
             kept == SelectSeq(numbered, LAMBDA row : ~duplicate(row))
         IN Some(IF kept # <<>> THEN existing_df \o kept ELSE existing_df)
    ELSE Some([i \in 1..Len(position_df) |-> [position_df[i] EXCEPT !.PositionIdx = 0]])

\* the records save_position_to_csv logs
SaveLogs(position_df, file) ==
    (IF file # None
     THEN << <<"Max", "existing", "PositionIdx:", "<max_existing_idx>">> >>
          \o (IF /\ file[1] # <<>>
                 /\ \E i \in 1..Len(position_df), j \in 1..Len(file[1]) :
                        /\ file[1][j].FEN = position_df[i].FEN
                        /\ file[1][j].CohortPair = position_df[i].CohortPair
              THEN << <<"Skipping", "<n>", "rows", "with", "duplicate", "FENs", "in", "the",
                        "same", "cohort", "pair:", "<duplicate_fens>">> >>
              ELSE <<>>)
     ELSE <<>>)
    \o << <<"After", "saving,", "positions.csv", "has", "<n>", "unique", "PositionIdx",
            "values.">> >>

\* the records of lines 315-319
FinishLogs(added) ==
    IF added # <<>>
    THEN << <<"Random", "walk", "completed", "with", "<n>", "positions", "saved", "to", "CSV">> >>
    ELSE << <<"Random", "walk", "completed", "without", "finding", "any", "significant",
              "divergence">> >>

\* a test for the text find_divergence logs when a sample is missing
NoMovesDataInRecentLogs(recent_logs) ==
    \E i \in 1..Len(recent_logs) : Contains(recent_logs[i], <<"No", "moves", "data">>)

\* any("Missing move data" in msg for msg in recent_logs)
MissingInRecentLogs(recent_logs) ==
    \E i \in 1..Len(recent_logs) : Contains(recent_logs[i], MissingMoveData)

\* if ply < min_ply: continue     (ply is the 0-based loop variable)
SkipsCheck(p, mn) == p < mn

\* the 0-based loop variable used as the ply number
ZeroBasedPly(p) == p

\* ply + 1: the 1-based number of the ply being processed
PlyNumber(p) == p + 1

\* range(max_ply + 1)
LoopOneMore(p, mx) == p <= mx

\* for ply in range(max_ply)
LoopContinues(p, mx) == p < mx

\* added_positions = [position_data]
OverwritePositions(added, position_data) == <<position_data>>

\* added_positions.append(position_data)
AppendPosition(added, position_data) == Append(added, position_data)

\* return []
ReturnsEmptyList(added) == Some(<<>>)

\* return added_positions
ReturnValue(added) == Some(added)
(***************************************************************************)
(* Initial states: a call of generate_and_save_positions about to start,   *)
(* in a fresh process (empty log buffer), with positions.csv absent or     *)
(* left by an earlier run that saved one position.                         *)
(***************************************************************************)
RatingPairs == {<<"1400", "1800">>, <<"1600", "2000">>}

ExistingStore ==
    build_position_dataframe(
        [base_df |-> SortByFreqDesc(build_move_df(SampleA("b1", "b2").moves)),
         target_df |-> SortByFreqDesc(build_move_df(SampleB("b1", "b2").moves))],
        Fen(<<"w1">>), "1400", "1800", 0, 1)

InitialStores == {None, Some(ExistingStore)}

\* no function is called on its own
NoCall ==
    /\ call = None
    /\ results = <<>>
    /\ draws = 0
    /\ before = None
    /\ saved = <<>>
    /\ bank = None
    /\ written = <<>>

\* no other walk runs in the process
NotShared ==
    /\ pending = None
    /\ solo = None

\* generate_positions.main does not run
ScriptIdle ==
    /\ main_pc = "idle"
    /\ num_walks = 0
    /\ walks_done = 0
    /\ initial_puzzle_count = -1
    /\ new_positions_count = 0
    /\ total_puzzle_count = -1
    /\ reorganized = None

Init ==
    /\ sort_ties \in TieOrders
    /\ ScriptIdle
    /\ \E rp \in RatingPairs : base_rating = rp[1] /\ target_rating = rp[2]
    /\ min_ply \in 0..MaxMinPly
    /\ max_ply \in 0..MaxMaxPly
    /\ min_games \in {MIN_GAMES, AltMinGames}
    /\ pc = "start"
    /\ ply = 0
    /\ board = <<>>
    /\ added_positions = <<>>
    /\ store \in InitialStores
    /\ buffer = <<>>
    /\ returned = None
    /\ exit = "running"
    /\ sampled = {}
    /\ analyzed = {}
    /\ diverged = {}
    /\ outcome = None
    /\ root = None
    /\ saves = 0
    /\ NoCall
    /\ NotShared

(***************************************************************************)
(* generate_and_save_positions, lines 259-270: set-up and validation of    *)
(* the starting position.                                                  *)
(***************************************************************************)
StartWalk ==
    /\ pc = "start"
    /\ \E base \in Samples, target \in Samples :
        LET logs == << <<"Starting", "random", "walk", "with", "divergence:", "<arguments>">>,
                       <<"Initial", "position:", "<fen>">> >>
                    \o GetMoveStatsLogs(base) \o GetMoveStatsLogs(target)
        IN /\ root' = Some([base_missing |-> base.moves = <<>>,
                            target_missing |-> target.moves = <<>>,
                            base_below |-> base.total < min_games,
                            target_below |-> target.total < min_games])
           /\ IF validate_initial_position(base, target)
              THEN /\ buffer' = Emit(buffer, logs)
                   /\ pc' = "walking"
                   /\ UNCHANGED <<returned, exit>>
              ELSE /\ buffer' = Emit(buffer, logs \o << <<"Insufficient", "initial", "data", "for",
                                                          "FEN", "<fen>:", "<totals>">> >>)
                   /\ pc' = "returned"
                   /\ returned' = ReturnValue(added_positions)
                   /\ exit' = "validation"
    /\ UNCHANGED <<runtime, script, elsewhere, sharing, args, ply, board, added_positions, store, sampled, analyzed, diverged, outcome,
                   saves>>

(***************************************************************************)
(* Lines 273-278: the sampler returns no move; the walk breaks out of the  *)
(* loop and returns (lines 315-320).                                       *)
(***************************************************************************)
AbortNoMove ==
    /\ pc = "walking"
    /\ LoopContinues(ply, max_ply)
    /\ \E sample \in Samples :
        /\ NoMove \in choose_weighted_move(sample)
        /\ buffer' = Emit(buffer,
                << <<"Processing", "ply", "<ply+1>/<max_ply>">> >>
                \o ChooseWeightedMoveLogs(sample)
                \o << <<"Aborting", "walk", "at", "ply", "<ply+1>", "due", "to", "insufficient",
                        "data.">> >>
                \o FinishLogs(added_positions))
    /\ sampled' = sampled \cup {ply + 1}
    /\ pc' = "returned"
    /\ returned' = ReturnValue(added_positions)
    /\ exit' = "no_move"
    /\ outcome' = None
    /\ UNCHANGED <<runtime, script, elsewhere, sharing, args, ply, board, added_positions, store, analyzed, diverged, root, saves>>

(***************************************************************************)
(* Lines 273-282: the sampler returns a legal move and it is pushed.       *)
(***************************************************************************)
PushMove ==
    /\ pc = "walking"
    /\ LoopContinues(ply, max_ply)
    /\ \E sample \in Samples :
        \E move \in choose_weighted_move(sample) \cap LegalMoves(board) :
            /\ board' = Append(board, move)
            /\ buffer' = Emit(buffer,
                    << <<"Processing", "ply", "<ply+1>/<max_ply>">> >>
                    \o ChooseWeightedMoveLogs(sample)
                    \o << <<"New", "position", "at", "ply", "<ply+1>:", "<fen>...">> >>)
    /\ sampled' = sampled \cup {ply + 1}
    /\ pc' = "pushed"
    /\ outcome' = None
    /\ UNCHANGED <<runtime, script, elsewhere, sharing, args, ply, added_positions, store, returned, exit, analyzed, diverged, root,
                   saves>>

(***************************************************************************)
(* Lines 273-280: the sampler raises, or returns a move that push_uci      *)
(* rejects; nothing catches the error.                                     *)
(***************************************************************************)
MoveRaises ==
    /\ pc = "walking"
    /\ LoopContinues(ply, max_ply)
    /\ \E sample \in Samples :
        \E move \in choose_weighted_move(sample) \ (LegalMoves(board) \cup {NoMove}) :
            buffer' = Emit(buffer,
                    << <<"Processing", "ply", "<ply+1>/<max_ply>">> >>
                    \o (IF move = "ZeroDivisionError"
                        THEN GetMoveStatsLogs(sample)
                        ELSE ChooseWeightedMoveLogs(sample)))
    /\ sampled' = sampled \cup {ply + 1}
    /\ pc' = "raised"
    /\ exit' = "raised"
    /\ outcome' = None
    /\ UNCHANGED <<runtime, script, elsewhere, sharing, args, ply, board, added_positions, store, returned, analyzed, diverged, root,
                   saves>>

(***************************************************************************)
(* Lines 284-287: no divergence check at this ply.                         *)
(***************************************************************************)
SkipCheck ==
    /\ pc = "pushed"
    /\ SkipsCheck(ply, min_ply)
    /\ buffer' = Emit(buffer, << <<"Skipping", "divergence", "check", "(ply", "<ply+1>", "<",
                                   "min_ply", "<min_ply>)">> >>)
    /\ ply' = ply + 1
    /\ pc' = "walking"
    /\ UNCHANGED <<runtime, script, elsewhere, sharing, args, board, added_positions, store, returned, exit, sampled, history>>

CheckRecord(p, d, base, target) ==
    [ply |-> p, class |-> d.class,
     base_missing |-> base.moves = <<>>, target_missing |-> target.moves = <<>>]

(***************************************************************************)
(* Lines 289-300: the analyzer returns None.                               *)
(***************************************************************************)
CheckNoDivergence ==
    /\ pc = "pushed"
    /\ ~SkipsCheck(ply, min_ply)
    /\ \E base \in Samples, target \in Samples :
      \E d \in {evaluate_divergence(Fen(board), base_rating, target_rating, PlyNumber(ply), base,
                                     target)} :
        LET after == Emit(buffer, d.logs)
            recent_logs == LastN(after, LogWindow)
            logged == Emit(after, << <<"Recent", "logs:">> \o Flatten(recent_logs) >>)
        IN /\ d.result = None
           /\ outcome' = Some(CheckRecord(ply + 1, d, base, target))
           /\ IF MissingInRecentLogs(recent_logs)
              THEN /\ buffer' = Emit(logged,
                        << <<"Aborting", "walk", "at", "ply", "<ply+1>", "due", "to", "missing",
                             "move", "data", "for", "target", "rating", "<target_rating>">> >>
                        \o FinishLogs(added_positions))
                   /\ pc' = "returned"
                   /\ returned' = ReturnValue(added_positions)
                   /\ exit' = "missing_data"
                   /\ UNCHANGED ply
              ELSE /\ buffer' = Emit(logged, << <<"Snapshot", "at", "ply", "<ply+1>:", "no",
                                                 "divergence", "found">> >>)
                   /\ ply' = ply + 1
                   /\ pc' = "walking"
                   /\ UNCHANGED <<returned, exit>>
    /\ analyzed' = analyzed \cup {ply + 1}
    /\ UNCHANGED <<runtime, script, elsewhere, sharing, args, board, added_positions, store, sampled, diverged, root, saves>>

(***************************************************************************)
(* Lines 289-290 and 302-313: the analyzer returns a divergence; it is     *)
(* appended to the list and saved to the store.                            *)
(***************************************************************************)
RecordDivergence ==
    /\ pc = "pushed"
    /\ ~SkipsCheck(ply, min_ply)
    /\ \E base \in Samples, target \in Samples :
      \E d \in {evaluate_divergence(Fen(board), base_rating, target_rating, PlyNumber(ply), base,
                                     target)} :
        LET position_data == create_position_data(d.result[1], base_rating, target_rating,
                                                  PlyNumber(ply))
            added == AppendPosition(added_positions, position_data)
            position_idx == Len(added) - 1
            position_df == build_position_dataframe(d.result[1], Fen(board), base_rating,
                                                    target_rating, position_idx, PlyNumber(ply))
        IN /\ d.result # None
           /\ outcome' = Some(CheckRecord(ply + 1, d, base, target))
           /\ added_positions' = added
           /\ store' = save_position_to_csv(position_df, store)
           /\ buffer' = Emit(buffer,
                   d.logs
                   \o << <<"Significant", "divergence", "found", "at", "ply", "<ply+1>">>,
                         <<"Assigning", "PositionIdx:", "<position_idx>">> >>
                   \o SaveLogs(position_df, store)
                   \o << <<"Saved", "position:", "<fen>...">> >>)
    /\ ply' = ply + 1
    /\ pc' = "walking"
    /\ analyzed' = analyzed \cup {ply + 1}
    /\ diverged' = diverged \cup {ply + 1}
    /\ saves' = saves + 1
    /\ UNCHANGED <<runtime, script, elsewhere, sharing, args, board, returned, exit, sampled, root>>

(***************************************************************************)
(* The loop is exhausted; lines 315-320.                                   *)
(***************************************************************************)
LoopExit ==
    /\ pc = "walking"
    /\ ~LoopContinues(ply, max_ply)
    /\ buffer' = Emit(buffer, FinishLogs(added_positions))
    /\ pc' = "returned"
    /\ returned' = ReturnValue(added_positions)
    /\ exit' = "completed"
    /\ outcome' = None
    /\ UNCHANGED <<runtime, script, elsewhere, sharing, args, ply, board, added_positions, store, sampled, analyzed, diverged, root,
                   saves>>

Next ==
    \/ StartWalk
    \/ AbortNoMove
    \/ PushMove
    \/ MoveRaises
    \/ SkipCheck
    \/ CheckNoDivergence
    \/ RecordDivergence
    \/ LoopExit

Spec == Init /\ [][Next]_vars
(***************************************************************************)
(* Properties.                                                             *)
(***************************************************************************)
PliesOf(list) == [i \in 1..Len(list) |-> list[i].ply]

StrictlyIncreasing(seq) == \A i \in 1..(Len(seq) - 1) : seq[i] < seq[i + 1]

Terminated == pc \in {"returned", "raised"}

\* every move on the board was legal for the side to move when it was pushed
LegalLine(b) ==
    \A i \in 1..Len(b) : b[i] \in (IF i % 2 = 1 THEN WhiteMoves ELSE BlackMoves)

\* the list holds one record per divergence the analyzer returned, in order
ListMatchesDivergences(list) ==
    /\ Len(list) = Cardinality(diverged)
    /\ Range(PliesOf(list)) = diverged
    /\ StrictlyIncreasing(PliesOf(list))

\* C1: when the sampler returns no move at ply k the walk stops at once: no
\* move is applied, the analyzer is not called and nothing is saved at ply k
\* or later, and the list returned is exactly the divergences recorded at
\* plies < k.
C1_Stopped ==
    exit = "no_move" =>
        LET k == ply + 1
        IN /\ pc = "returned"
           /\ ~ENABLED Next
           /\ Len(board) = k - 1
           /\ \A q \in analyzed : q < k
           /\ \A q \in sampled : q <= k
           /\ \A q \in diverged : q < k
           /\ saves = Cardinality(diverged)
           /\ returned = Some(added_positions)
           /\ ListMatchesDivergences(added_positions)

C1_NoMoveStopsWalk ==
    /\ []C1_Stopped
    /\ [][(exit' = "no_move" /\ exit # "no_move")
            => UNCHANGED <<board, added_positions, store, analyzed, diverged, saves>>]_vars

C1_Witness ==
    /\ exit = "no_move"
    /\ ply >= 1
    /\ added_positions # <<>>

TargetMissingOnly(o) == o.class = "DataUnavailable" /\ o.target_missing /\ ~o.base_missing

BaseMissingOnly(o) == o.class = "DataUnavailable" /\ o.base_missing /\ ~o.target_missing

\* C3: when the divergence check finds the target sample missing while the
\* base sample is present, the walk is aborted at that ply and the
\* divergences collected so far are returned.
C3_TargetMissingAborts ==
    (outcome # None /\ TargetMissingOnly(outcome[1])) =>
        /\ pc = "returned"
        /\ exit = "missing_data"
        /\ returned = Some(added_positions)
        /\ \A q \in sampled : q <= outcome[1].ply

\* C4: the analyzer is called at ply p exactly when p >= min_ply: at the top
\* of the loop the plies analyzed so far are the processed plies >= min_ply.
C4_AnalyzedFromMinPly ==
    pc = "walking" => analyzed = {p \in 1..ply : p >= min_ply}

RootInsufficient(r) == r.base_missing \/ r.target_missing \/ r.base_below \/ r.target_below

\* C5: when a cohort's sample at the starting position is missing or its
\* total is below the floor, the walk returns the empty list and has
\* requested no move, applied none, called the analyzer never and saved
\* nothing.
C5_RootInsufficientReturnsEmpty ==
    (root # None /\ RootInsufficient(root[1])) =>
        /\ pc = "returned"
        /\ exit = "validation"
        /\ returned = Some(<<>>)
        /\ sampled = {}
        /\ board = <<>>
        /\ analyzed = {}
        /\ saves = 0
        /\ store \in InitialStores
        /\ ~ENABLED Next

\* the floor alone rejects the root: both samples are present
C5_Witness ==
    /\ exit = "validation"
    /\ root # None
    /\ ~root[1].base_missing
    /\ ~root[1].target_missing
    /\ root[1].target_below

\* C6: a check that ends NotDivergent, InsufficientGames or with only the
\* base sample missing leaves the accumulated list and the store unchanged
\* and the walk goes on to the next ply.
C6_NoRecordContinues ==
    [][(/\ pc = "pushed"
        /\ outcome' # None
        /\ \/ outcome'[1].class \in {"NotDivergent", "InsufficientGames"}
           \/ BaseMissingOnly(outcome'[1]))
       => /\ added_positions' = added_positions
          /\ store' = store
          /\ saves' = saves
          /\ pc' = "walking"
          /\ ply' = ply + 1
          /\ exit' = "running"
          /\ returned' = None]_vars

C6_Witness ==
    /\ pc = "walking"
    /\ outcome # None
    /\ BaseMissingOnly(outcome[1])
    /\ outcome[1].ply < max_ply
    /\ added_positions # <<>>

C8_IllegalMovePropagates ==
    /\ LegalLine(board)
    /\ exit = "raised" <=> pc = "raised"
    /\ pc = "raised" =>
          /\ returned = None
          /\ ~ENABLED Next
          /\ \A q \in sampled : q <= ply + 1
          /\ \A q \in analyzed : q <= ply

C8_Witness ==
    /\ pc = "raised"
    /\ Len(board) >= 1
    /\ added_positions # <<>>

\* C9: a walk that ends early, for whatever reason, hands the caller every
\* divergence recorded before it ended.
C9_PartialProgressReturned ==
    (exit \in {"no_move", "missing_data", "raised"} /\ added_positions # <<>>) =>
        returned = Some(added_positions)

C10_Bounded ==
    /\ Cardinality(sampled) <= max_ply
    /\ Len(board) <= max_ply
    /\ pc = "returned" =>
          /\ exit \in {"validation", "completed", "no_move", "missing_data"}
          /\ returned = Some(added_positions)
    /\ pc = "raised" => exit = "raised" /\ returned = None
    /\ exit = "completed" => ply = max_ply /\ Len(board) = max_ply /\ sampled = 1..max_ply

\* an upper bound on the steps a walk has left
Measure ==
    CASE pc = "start" -> 2 * max_ply + 2
      [] pc = "walking" -> 2 * (max_ply - ply) + 1
      [] pc = "pushed" -> 2 * (max_ply - ply)
      [] OTHER -> 0

UniquePositionIdx(file) ==
    IF file = None THEN 0 ELSE Cardinality({file[1][i].PositionIdx : i \in 1..Len(file[1])})

\* C29: the list a walk builds and the store agree: every step that adds a
\* position to added_positions adds one PositionIdx value to positions.csv,
\* so the length of the returned list is the growth of the number of unique
\* PositionIdx values in the store.
C29_ListedPositionsAreInStore ==
    [][Len(added_positions') = Len(added_positions) + 1
          => UniquePositionIdx(store') = UniquePositionIdx(store) + 1]_vars

(***************************************************************************)
(* find_divergence on its own: one position, the provider's two answers    *)
(* drawn from AnalyzerSamples, and up to MaxInvocations calls with them.   *)
(***************************************************************************)
MaxInvocations == 2     \* invocations made with the same arguments

\* listed least-played move first; the most played move wins most
SampleC(m1, m2) ==
    [moves |-> <<Mv(m2, 10, 400, 455), Mv(m1, 12, 600, 545)>>, total |-> 22]

\* the same top move as SampleC, played far more often
SampleD(m1, m2) ==
    [moves |-> <<Mv(m1, 30, 600, 938), Mv(m2, 2, 400, 62)>>, total |-> 32]

\* two moves of equal frequency
SampleTie(m1, m2) ==
    [moves |-> <<Mv(m1, 6, 400, 500), Mv(m2, 6, 600, 500)>>, total |-> 12]

\* the moves of SampleB under a total of one game
SampleShort(m1, m2) == [moves |-> SampleB(m1, m2).moves, total |-> 1]

\* the move of the highest frequency has the fewest games
SampleThin(m1, m2) ==
    [moves |-> <<Mv(m1, 4, 400, 500), Mv(m2, 20, 600, 300)>>, total |-> 24]

\* a sample that lists a move the other samples do not have
SampleE(m2, m3) ==
    [moves |-> <<Mv(m2, 12, 600, 600), Mv(m3, 8, 500, 400)>>, total |-> 20]

\* moves played once each
Fillers ==
    <<"x1", "x2", "x3", "x4", "x5", "x6", "x7", "x8", "x9", "x10", "x11", "x12", "x13",
      "x14", "x15", "x16">>

\* a table of SmallSort + 1 rows, not listed by frequency: two moves of the
\* same, highest frequency after a move played once
SampleWide(m1, m2) ==
    [moves |-> <<Mv(Fillers[1], 1, 500, 28), Mv(m1, 10, 400, 278), Mv(m2, 10, 600, 278)>>
               \o [i \in 1..(SmallSort - 2) |-> Mv(Fillers[i + 1], 1, 500, 28)],
     total |-> 36]

\* a sample of one move
SampleSolo(m1) == [moves |-> <<Mv(m1, 20, 500, 1000)>>, total |-> 20]

\* SampleA with a gap of two percentage points between the win rates
SampleNear(m1, m2) ==
    [moves |-> <<Mv(m1, 12, 400, 667), Mv(m2, 6, 420, 333)>>, total |-> 18]

AnalyzerSamples ==
    {NoData, SampleA("w1", "w2"), SampleB("w1", "w2"), SampleLow("w1"), SampleNear("w1", "w2"),
     SampleC("w1", "w2"), SampleD("w1", "w2"), SampleTie("w1", "w2"),
     SampleShort("w1", "w2"), SampleThin("w1", "w2"), SampleE("w2", "w3"),
     SampleWide("w1", "w2"), SampleSolo("w1")}

\* no walk is running
WalkIdle ==
    /\ min_ply = 0
    /\ max_ply = 0
    /\ pc = "idle"
    /\ ply = 0
    /\ board = <<>>
    /\ added_positions = <<>>
    /\ buffer = <<>>
    /\ returned = None
    /\ exit = "running"
    /\ sampled = {}
    /\ analyzed = {}
    /\ diverged = {}
    /\ outcome = None
    /\ root = None
    /\ NotShared

walk == <<min_ply, max_ply, pc, ply, board, added_positions, returned, exit, sampled,
          analyzed, diverged, outcome, root, pending, solo>>

AnalyzerInit ==
    /\ sort_ties \in TieOrders
    /\ ScriptIdle
    /\ \E rp \in RatingPairs : base_rating = rp[1] /\ target_rating = rp[2]
    /\ min_games \in {MIN_GAMES, AltMinGames}
    /\ WalkIdle
    /\ store = None
    /\ saves = 0
    /\ call \in {Some([fen |-> Fen(<<>>), base |-> b, target |-> t]) :
                    b \in AnalyzerSamples, t \in AnalyzerSamples}
    /\ results = <<>>
    /\ draws = 0
    /\ before = None
    /\ saved = <<>>
    /\ bank = None
    /\ written = <<>>

\* one invocation of find_divergence(fen, base_rating, target_rating)
Analyze ==
    /\ pc = "idle"
    /\ call # None
    /\ Len(results) < MaxInvocations
    /\ LET d == find_divergence(call[1].fen, base_rating, target_rating, call[1].base,
                                call[1].target)
       IN /\ results' = Append(results, [result |-> d.result, class |-> d.class,
                                         steps |-> d.steps])
          /\ buffer' = Emit(buffer, d.logs)
    /\ UNCHANGED <<runtime, script, walk, base_rating, target_rating, min_games, store, saves, call, draws,
                   before, saved, bank, written>>

AnalyzerNext == Analyze

AnalyzerSpec == AnalyzerInit /\ [][AnalyzerNext]_vars

\* the largest frequency of a move list
MaxFreq(moves) ==
    CHOOSE f \in {moves[i].freq : i \in 1..Len(moves)} :
        \A i \in 1..Len(moves) : moves[i].freq <= f

\* the moves of the largest frequency
TopMoves(moves) == {moves[i].uci : i \in {j \in 1..Len(moves) : moves[j].freq = MaxFreq(moves)}}

\* the first listed of them
FirstSeenTop(moves) ==
    moves[CHOOSE i \in 1..Len(moves) :
            /\ moves[i].freq = MaxFreq(moves)
            /\ \A j \in 1..(i - 1) : moves[j].freq < MaxFreq(moves)].uci

BothPresent == call # None /\ call[1].base.moves # <<>> /\ call[1].target.moves # <<>>

\* C11: find_divergence reports no divergence when both cohorts have the
\* same highest-frequency move; every divergence it returns names two
\* different top moves, each a highest-frequency move of its own table.
C11_SameTopNeverDivergent ==
    \A k \in 1..Len(results) :
        /\ results[k].result # None =>
              LET r == results[k].result[1]
              IN /\ r.top_base_move # r.top_target_move
                 /\ r.top_base_move \in TopMoves(call[1].base.moves)
                 /\ r.top_target_move \in TopMoves(call[1].target.moves)
                 /\ r.top_base_move = r.base_df[1].Move
                 /\ r.top_target_move = r.target_df[1].Move
        /\ (BothPresent /\ FirstSeenTop(call[1].base.moves) = FirstSeenTop(call[1].target.moves))
              => results[k].result = None /\ results[k].class # "Divergent"

\* the same-top-move return is taken on a pair whose frequencies differ
\* significantly and whose provider order is not the frequency order
C11_Witness ==
    /\ results # <<>>
    /\ BothPresent
    /\ call[1].base = SampleC("w1", "w2")
    /\ call[1].target = SampleD("w1", "w2")
    /\ FirstSeenTop(call[1].base.moves) = FirstSeenTop(call[1].target.moves)
    /\ results[1].steps = <<"data", "games", "chi2", "top">>
    /\ results[1].class = "NotDivergent"

\* C12: when the base or the target sample is empty or missing,
\* find_divergence returns None, classified data-unavailable, whatever the
\* other sample holds, and evaluates neither the game-count check nor a
\* statistical test.
C12_MissingSampleIsDataUnavailable ==
    \A k \in 1..Len(results) :
        (call[1].base.moves = <<>> \/ call[1].target.moves = <<>>)
            => /\ results[k].result = None
               /\ results[k].class = "DataUnavailable"
               /\ results[k].steps = <<"data">>

\* only the target sample is missing, the base sample would pass every test
C12_Witness ==
    /\ results # <<>>
    /\ call[1].base = SampleA("w1", "w2")
    /\ call[1].target = NoData
    /\ results[1].class = "DataUnavailable"

\* C13: with both samples present, a base or target total below the
\* configured minimum gives None, classified insufficient-games, before the
\* chi-square test; no divergence is reported below the minimum.
C13_BelowFloorIsInsufficientGames ==
    \A k \in 1..Len(results) :
        BothPresent =>
            /\ (call[1].base.total < min_games \/ call[1].target.total < min_games)
                  => /\ results[k].result = None
                     /\ results[k].class = "InsufficientGames"
                     /\ results[k].steps = <<"data", "games">>
            /\ results[k].result # None
                  => call[1].base.total >= min_games /\ call[1].target.total >= min_games

\* only the target total is below the floor, on a pair of move lists that
\* is a divergence under a lower floor
C13_Witness ==
    /\ results # <<>>
    /\ min_games = AltMinGames
    /\ call[1].base = SampleA("w1", "w2")
    /\ call[1].target.moves = SampleB("w1", "w2").moves
    /\ call[1].target.total < min_games
    /\ call[1].base.total >= min_games
    /\ results[1].class = "InsufficientGames"

ZTestSignificant(df, move_a, move_b) ==
    /\ move_a \in MovesOf(df)
    /\ move_b \in MovesOf(df)
    /\ LET a == FirstRow(df, move_a)
           b == FirstRow(df, move_b)
           z == proportions_ztest(WinCount(a), a.Games, WinCount(b), b.Games)
       IN ~z.nan /\ z.z2 > 2706

\* C21: find_divergence reports a divergence only if the two-proportion
\* z-test, within the base sample, on the win counts of the target cohort's
\* top move and of the base cohort's top move is significant at the
\* configured threshold.
C21_DivergentOnlyIfZTestSignificant ==
    \A k \in 1..Len(results) :
        results[k].class = "Divergent" =>
            LET r == results[k].result[1]
            IN ZTestSignificant(r.base_df, r.top_target_move, r.top_base_move)

\* the games a table has for a move, 0 when it does not list the move
GamesInTable(df, move) == IF move \in MovesOf(df) THEN FirstRow(df, move).Games ELSE 0

ListedMoves(moves) == {moves[i].uci : i \in 1..Len(moves)}

\* the games a provider answer gives a move, 0 for a move it does not list
CountIn(moves, m) ==
    SumSeq([i \in 1..Len(moves) |-> IF moves[i].uci = m THEN moves[i].games_total ELSE 0])

\* the 2 x M table of the call: columns = the union of the moves of both
\* answers, absent entries 0
TableColumns == ListedMoves(call[1].base.moves) \cup ListedMoves(call[1].target.moves)

TableBase == [m \in TableColumns |-> CountIn(call[1].base.moves, m)]

TableTarget == [m \in TableColumns |-> CountIn(call[1].target.moves, m)]

\* the table has a row or a column of zeros: no chi-square test exists
TableDegenerate ==
    \/ \A m \in TableColumns : TableBase[m] = 0
    \/ \A m \in TableColumns : TableTarget[m] = 0
    \/ \E m \in TableColumns : TableBase[m] + TableTarget[m] = 0

\* the chi-square test of independence on the table is significant at 0.10:
\* the statistic is beyond the 0.90 quantile of its degrees of freedom
TableSignificant ==
    /\ ~TableDegenerate
    /\ Cardinality(TableColumns) > 1
    /\ LET dof == Cardinality(TableColumns) - 1
               quantile == CASE dof = 1 -> 2706 [] dof = 2 -> 4605 [] dof = 3 -> 6251
                         [] dof = 17 -> 24769 [] dof = 18 -> 25989
       IN Chi2Statistic(TableColumns, TableBase, TableTarget) > quantile

\* both samples are present and both totals reach the floor
ReachesChiSquare ==
    /\ BothPresent
    /\ call[1].base.total >= min_games
    /\ call[1].target.total >= min_games

\* C23: find_divergence reports a divergence only if the chi-square test on
\* the 2 x M table of game counts (columns = union of the moves, absent
\* entries 0) is significant at the threshold; when the test is not
\* significant the outcome is NotDivergent, decided at that test, whatever
\* the top moves and the win rates.
C23_DivergentOnlyIfChiSquareSignificant ==
    \A k \in 1..Len(results) :
        /\ results[k].class = "Divergent" => ReachesChiSquare /\ TableSignificant
        /\ (ReachesChiSquare /\ ~TableDegenerate /\ ~TableSignificant)
              => /\ results[k].class = "NotDivergent"
                 /\ results[k].result = None
                 /\ results[k].steps = <<"data", "games", "chi2">>

\* the test is not significant on a pair with different top moves, where the
\* target's top move wins 20 points more on 6 games of the base sample
C23_Witness ==
    /\ results # <<>>
    /\ call[1].base = SampleTie("w1", "w2")
    /\ call[1].target = SampleB("w1", "w2")
    /\ ReachesChiSquare
    /\ ~TableSignificant
    /\ FirstSeenTop(call[1].base.moves) # FirstSeenTop(call[1].target.moves)
    /\ results[1].class = "NotDivergent"
    /\ results[1].steps = <<"data", "games", "chi2">>

\* C24: each cohort's top move in find_divergence is the first listed of
\* the moves of the highest frequency of that cohort's sample, whatever the
\* number of moves and the order they are listed in: a returned divergence
\* names these two moves, the same-top-move return is taken exactly when
\* they are equal, and the win rates are compared only when they differ.
C24_TopMoveIsFirstSeenHighest ==
    \A k \in 1..Len(results) :
        LET top_base == FirstSeenTop(call[1].base.moves)
            top_target == FirstSeenTop(call[1].target.moves)
        IN /\ results[k].result # None
                => /\ results[k].result[1].top_base_move = top_base
                   /\ results[k].result[1].top_target_move = top_target
           /\ results[k].steps = <<"data", "games", "chi2", "top">> => top_base = top_target
           /\ results[k].steps = <<"data", "games", "chi2", "top", "delta">>
                => top_base # top_target

\* the win rate, as a fraction in thousandths, a provider answer gives a
\* move; 0 for a move it does not list
WinRateIn(moves, m) ==
    IF m \in ListedMoves(moves)
    THEN moves[CHOOSE i \in 1..Len(moves) :
                  moves[i].uci = m /\ \A j \in 1..(i - 1) : moves[j].uci # m].win_rate
    ELSE 0

\* each sample has one move of the highest frequency
TopsUnambiguous ==
    /\ BothPresent
    /\ Cardinality(TopMoves(call[1].base.moves)) = 1
    /\ Cardinality(TopMoves(call[1].target.moves)) = 1

\* the gap, in thousandths of a percentage point, between the base-sample
\* win rates of the target's top move and of the base top move: the
\* fractions times 100
GapInPoints ==
    LET base_top == FirstSeenTop(call[1].base.moves)
        target_top == FirstSeenTop(call[1].target.moves)
    IN 100 * WinRateIn(call[1].base.moves, target_top)
       - 100 * WinRateIn(call[1].base.moves, base_top)

C25_GapBelowThreshold ==
    /\ results # <<>>
    /\ call[1].base = SampleNear("w1", "w2")
    /\ call[1].target = SampleB("w1", "w2")
    /\ GapInPoints = 2000
    /\ results[1].class = "NotDivergent"
    /\ results[1].steps = <<"data", "games", "chi2", "top", "delta">>

\* a move is listed by one of the two answers only
SomeMoveMissing ==
    ListedMoves(call[1].base.moves) # ListedMoves(call[1].target.moves)

C28_ShippedFloorRejectsOneGame ==
    \A k \in 1..Len(results) :
        (/\ min_games = MIN_GAMES
         /\ BothPresent
         /\ (call[1].base.total = 1 \/ call[1].target.total = 1))
            => /\ results[k].class = "InsufficientGames"
               /\ results[k].result = None

(***************************************************************************)
(* choose_weighted_move on its own: the provider's answer for the base     *)
(* rating drawn from SamplerSamples, and up to MaxInvocations calls.       *)
(***************************************************************************)
\* the second listed move has no game
SampleZeroTail(m1, m2) ==
    [moves |-> <<Mv(m1, 5, 400, 1000), Mv(m2, 0, 0, 0)>>, total |-> 5]

\* no listed move has a game
SampleZeroAll(m1, m2) ==
    [moves |-> <<Mv(m1, 0, 0, 0), Mv(m2, 0, 0, 0)>>, total |-> 3]

\* the moves of fake_get_move_stats: frequencies 0.6, 0.3 and 0.1
SampleDynamic(m1, m2, m3) ==
    [moves |-> <<Mv(m1, 60, 500, 600), Mv(m2, 30, 500, 300), Mv(m3, 10, 500, 100)>>,
     total |-> 100]

\* the sampler's temperature, as 1 / temperature: 1.0 and 0.5
InvTemperatures == {1, 2}

SamplerSamples ==
    {NoData, SampleDynamic("w1", "w3", "w2"),
     SampleA("w1", "w2"), SampleLow("w1"), SampleShort("w1", "w2"),
     SampleZeroTail("w1", "w2"), SampleZeroAll("w1", "w2"),
     SampleA("b1", "b2"), SampleLow("b1"), SampleZeroTail("b1", "b2")}

SamplerInit ==
    /\ sort_ties \in TieOrders
    /\ ScriptIdle
    /\ \E rp \in RatingPairs : base_rating = rp[1] /\ target_rating = rp[2]
    /\ min_games \in {MIN_GAMES, AltMinGames}
    /\ WalkIdle
    /\ store = None
    /\ saves = 0
    /\ call \in {Some([fen |-> Fen(<<>>), base |-> b, target |-> NoData, inv_temperature |-> e]) :
                    b \in SamplerSamples, e \in InvTemperatures}
    /\ results = <<>>
    /\ draws = 0
    /\ before = None
    /\ saved = <<>>
    /\ bank = None
    /\ written = <<>>

\* one invocation of choose_weighted_move(fen, base_rating, temperature); a raised
\* ZeroDivisionError is recorded as the outcome of the call
SampleMove ==
    /\ pc = "idle"
    /\ call # None
    /\ Len(results) < MaxInvocations
    /\ \E chosen \in choose_weighted_move(call[1].base) :
        /\ results' = Append(results,
                [move |-> chosen, drew |-> RandomDraws(call[1].base),
                 drawn |-> DrawArguments(call[1].base, call[1].inv_temperature)])
        /\ draws' = draws + RandomDraws(call[1].base)
        /\ buffer' = Emit(buffer,
                IF chosen = "ZeroDivisionError"
                THEN GetMoveStatsLogs(call[1].base)
                ELSE ChooseWeightedMoveLogs(call[1].base))
    /\ UNCHANGED <<runtime, script, walk, base_rating, target_rating, min_games, store, saves, call, before,
                   saved, bank, written>>

SamplerNext == SampleMove

SamplerSpec == SamplerInit /\ [][SamplerNext]_vars

UciOf(moves) == {moves[i].uci : i \in 1..Len(moves)}

\* C15: for a base sample with at least one move and a total of at least
\* the configured minimum, zero frequencies included, choose_weighted_move
\* returns a move, and one of the uci moves of the sample.
C15_SamplerReturnsListedMove ==
    \A k \in 1..Len(results) :
        (call[1].base.moves # <<>> /\ call[1].base.total >= min_games)
            => results[k].move \in UciOf(call[1].base.moves)

\* C16: choose_weighted_move returns None exactly when the base sample is
\* empty or missing or its total is below the configured minimum, and then
\* makes no random draw.
C16_NoneExactlyOnMissingOrBelowFloor ==
    \A k \in 1..Len(results) :
        /\ results[k].move = NoMove
              <=> (call[1].base.moves = <<>> \/ call[1].base.total < min_games)
        /\ results[k].move = NoMove => results[k].drew = 0 /\ draws = 0

\* None is returned for a sample that lists moves, because of the floor alone
C16_Witness ==
    /\ results # <<>>
    /\ call[1].base = SampleLow("w1")
    /\ min_games = AltMinGames
    /\ results[1].move = NoMove
    /\ draws = 0

RECURSIVE Gcd(_, _)
Gcd(a, b) == IF b = 0 THEN a ELSE Gcd(b, a % b)

\* the fractions a / b and c / d are equal (b, d > 0), by their lowest terms
SameFraction(a, b, c, d) ==
    /\ a \div Gcd(a, b) = c \div Gcd(c, d)
    /\ b \div Gcd(a, b) = d \div Gcd(c, d)

\* C27: when choose_weighted_move draws, random.choices receives the moves
\* of the sample in the provider's order, none added, removed or reordered,
\* with weights freq^(1/T) / sum of freq^(1/T): non-negative fractions that
\* sum to 1, and 0.36/0.46, 0.09/0.46, 0.01/0.46 for T = 1/2 and the
\* frequencies 0.6, 0.3, 0.1.
C27_DrawsFromSampleWithScaledWeights ==
    \A k \in 1..Len(results) :
        results[k].drew = 1 =>
            LET moves == call[1].base.moves
                e == call[1].inv_temperature
                scaled == [i \in 1..Len(moves) |->
                              IF e = 1 THEN moves[i].freq ELSE moves[i].freq * moves[i].freq]
                drawn == results[k].drawn[1]
            IN /\ drawn.population = [i \in 1..Len(moves) |-> moves[i].uci]
               /\ Len(drawn.weights) = Len(moves)
               /\ \A i \in 1..Len(moves) :
                    /\ drawn.weights[i].den > 0
                    /\ drawn.weights[i].num >= 0
                    /\ SameFraction(drawn.weights[i].num, drawn.weights[i].den,
                                    scaled[i], SumSeq(scaled))
                    /\ drawn.weights[i].den = drawn.weights[1].den
               /\ SumSeq([i \in 1..Len(moves) |-> drawn.weights[i].num]) = drawn.weights[1].den
               /\ (e = 2 /\ [i \in 1..Len(moves) |-> moves[i].freq] = <<600, 300, 100>>)
                    => /\ SameFraction(drawn.weights[1].num, drawn.weights[1].den, 36, 46)
                       /\ SameFraction(drawn.weights[2].num, drawn.weights[2].den, 9, 46)
                       /\ SameFraction(drawn.weights[3].num, drawn.weights[3].den, 1, 46)

\* the draw of test_choose_weighted_move_dynamic: temperature 0.5 on the
\* frequencies 0.6, 0.3, 0.1, listed in an order that is not alphabetical
C27_Witness ==
    /\ results # <<>>
    /\ call[1].base = SampleDynamic("w1", "w3", "w2")
    /\ call[1].inv_temperature = 2
    /\ results[1].drew = 1
    /\ results[1].drawn[1].population = <<"w1", "w3", "w2">>
    /\ SameFraction(results[1].drawn[1].weights[1].num, results[1].drawn[1].weights[1].den,
                    36, 46)

(***************************************************************************)
(* A walk in a process where other walks run too.  logger is a module      *)
(* global (logger.py:51), so logger.handlers[0].buffer holds the records   *)
(* of every walk of the process: those an earlier walk left, and those a   *)
(* concurrently running walk adds.  Every evaluate_divergence call logs at *)
(* least LogWindow records of its own, so a record of another walk is      *)
(* among the buffer[-5:] read at line 292 only when it arrives after       *)
(* evaluate_divergence has returned (line 290); the model lets other       *)
(* walks log there.  positions.csv may hold what an earlier walk saved.    *)
(***************************************************************************)
MaxForeign == 1     \* records other walks log between line 290 and line 292

\* the text of a provider error response, response.text[:100] (api.py:58)
ProviderTexts == {<<"<text>">>, <<"Missing", "move", "data">>}

\* records a walk's calls can log
OtherWalkRecords ==
    {<<"No", "moves", "data", "for", "<fen>", "at", "rating", "<rating>">>,
     <<"Aborting", "walk", "at", "ply", "<ply+1>", "due", "to", "missing", "move", "data",
       "for", "target", "rating", "<target_rating>">>,
     <<"Snapshot", "at", "ply", "<ply+1>:", "no", "divergence", "found">>}
    \cup {<<"API", "error", "(<status>):">> \o t : t \in ProviderTexts}

\* what an earlier walk of the process left in the buffer
LeftBehind ==
    {<<>>,
     Emit(<<>>, << <<"API", "error", "(<status>):", "Missing", "move", "data">>,
                   <<"No", "moves", "data", "for", "<fen>", "at", "rating", "<rating>">>,
                   <<"Snapshot", "at", "ply", "<ply+1>:", "no", "divergence", "found">> >>
                \o FinishLogs(<<>>))}

SharedInit ==
    /\ sort_ties \in TieOrders
    /\ ScriptIdle
    /\ base_rating = "1400"
    /\ target_rating = "1800"
    /\ min_ply \in 0..MaxMinPly
    /\ max_ply \in 0..MaxMaxPly
    /\ min_games = MIN_GAMES
    /\ pc = "start"
    /\ ply = 0
    /\ board = <<>>
    /\ added_positions = <<>>
    /\ store \in InitialStores
    /\ buffer \in LeftBehind
    /\ returned = None
    /\ exit = "running"
    /\ sampled = {}
    /\ analyzed = {}
    /\ diverged = {}
    /\ outcome = None
    /\ root = None
    /\ saves = 0
    /\ NoCall
    /\ NotShared

\* line 290: evaluate_divergence is called and returns
Evaluate ==
    /\ pc = "pushed"
    /\ ~SkipsCheck(ply, min_ply)
    /\ \E base \in Samples, target \in Samples :
        LET d == evaluate_divergence(Fen(board), base_rating, target_rating, PlyNumber(ply), base,
                                     target)
        IN /\ pending' = Some([result |-> d.result,
                               logs |-> d.logs,
                               check |-> CheckRecord(ply + 1, d, base, target),
                               foreign |-> 0])
           /\ buffer' = Emit(buffer, d.logs)
    /\ pc' = "evaluated"
    /\ analyzed' = analyzed \cup {ply + 1}
    /\ UNCHANGED <<runtime, script, elsewhere, args, ply, board, added_positions, store, returned, exit, sampled,
                   diverged, outcome, root, saves, solo>>

\* another walk of the process logs a record
OtherWalkLogs ==
    /\ pc = "evaluated"
    /\ pending[1].foreign < MaxForeign
    /\ \E record \in OtherWalkRecords : buffer' = Emit(buffer, <<record>>)
    /\ pending' = Some([pending[1] EXCEPT !.foreign = @ + 1])
    /\ UNCHANGED <<runtime, script, elsewhere, args, pc, ply, board, added_positions, store, returned, exit,
                   sampled, analyzed, diverged, outcome, root, saves, solo>>

\* lines 291-300, after evaluate_divergence returned None
DecideNoDivergence ==
    /\ pc = "evaluated"
    /\ pending[1].result = None
    /\ LET recent_logs == LastN(buffer, LogWindow)
           logged == Emit(buffer, << <<"Recent", "logs:">> \o Flatten(recent_logs) >>)
           own_logs == LastN(pending[1].logs, LogWindow)
       IN /\ solo' = Some([taken |-> MissingInRecentLogs(recent_logs),
                           alone |-> MissingInRecentLogs(own_logs)])
          /\ IF MissingInRecentLogs(recent_logs)
             THEN /\ buffer' = Emit(logged,
                       << <<"Aborting", "walk", "at", "ply", "<ply+1>", "due", "to", "missing",
                            "move", "data", "for", "target", "rating", "<target_rating>">> >>
                       \o FinishLogs(added_positions))
                  /\ pc' = "returned"
                  /\ returned' = ReturnValue(added_positions)
                  /\ exit' = "missing_data"
                  /\ UNCHANGED ply
             ELSE /\ buffer' = Emit(logged, << <<"Snapshot", "at", "ply", "<ply+1>:", "no",
                                                "divergence", "found">> >>)
                  /\ ply' = ply + 1
                  /\ pc' = "walking"
                  /\ UNCHANGED <<returned, exit>>
    /\ outcome' = Some(pending[1].check)
    /\ pending' = None
    /\ UNCHANGED <<runtime, script, elsewhere, args, board, added_positions, store, sampled, analyzed, diverged,
                   root, saves>>

\* lines 302-313, after evaluate_divergence returned a divergence
DecideRecord ==
    /\ pc = "evaluated"
    /\ pending[1].result # None
    /\ LET divergence == pending[1].result[1]
           position_data == create_position_data(divergence, base_rating, target_rating,
                                                 PlyNumber(ply))
           added == AppendPosition(added_positions, position_data)
           position_idx == Len(added) - 1
           position_df == build_position_dataframe(divergence, Fen(board), base_rating,
                                                   target_rating, position_idx, PlyNumber(ply))
       IN /\ added_positions' = added
          /\ store' = save_position_to_csv(position_df, store)
          /\ buffer' = Emit(buffer,
                  << <<"Significant", "divergence", "found", "at", "ply", "<ply+1>">>,
                     <<"Assigning", "PositionIdx:", "<position_idx>">> >>
                  \o SaveLogs(position_df, store)
                  \o << <<"Saved", "position:", "<fen>...">> >>)
    /\ outcome' = Some(pending[1].check)
    /\ pending' = None
    /\ ply' = ply + 1
    /\ pc' = "walking"
    /\ diverged' = diverged \cup {ply + 1}
    /\ saves' = saves + 1
    /\ UNCHANGED <<runtime, script, elsewhere, args, board, returned, exit, sampled, analyzed, root, solo>>

SharedNext ==
    \/ StartWalk
    \/ AbortNoMove
    \/ PushMove
    \/ MoveRaises
    \/ SkipCheck
    \/ Evaluate
    \/ OtherWalkLogs
    \/ DecideNoDivergence
    \/ DecideRecord
    \/ LoopExit

SharedSpec == SharedInit /\ [][SharedNext]_vars

\* C17: every continue or abort decision of a walk is the one its own
\* board, ply counter and provider responses give; records that other
\* walks of the process wrote to the logger buffer never change it.
C17_DecisionsFromOwnStateOnly ==
    solo # None => solo[1].taken = solo[1].alone

(***************************************************************************)
(* save_position_to_csv on its own: a sequence of up to MaxSaves calls on  *)
(* one file, each with the DataFrame of one position.                      *)
(***************************************************************************)
MaxSaves == 3       \* calls of save_position_to_csv

CsvFens == {Fen(<<"w1">>), Fen(<<"w2">>), Fen(<<"w1", "b1">>)}

\* the PositionIdx the incoming rows carry
CarriedIdx == {0, 99}

\* the DataFrame of one position, as build_position_dataframe makes it
CsvPosition(fen, rp, idx) ==
    build_position_dataframe(
        [base_df |-> SortByFreqDesc(build_move_df(SampleA("w1", "w2").moves)),
         target_df |-> SortByFreqDesc(build_move_df(SampleB("w1", "w2").moves))],
        fen, rp[1], rp[2], idx, Len(fen))

CsvInit ==
    /\ sort_ties \in TieOrders
    /\ ScriptIdle
    /\ \E rp \in RatingPairs : base_rating = rp[1] /\ target_rating = rp[2]
    /\ min_games = MIN_GAMES
    /\ WalkIdle
    /\ store \in InitialStores
    /\ before = store
    /\ saves = 0
    /\ saved = <<>>
    /\ call = None
    /\ results = <<>>
    /\ draws = 0
    /\ bank = None
    /\ written = <<>>

\* one call save_position_to_csv(position_df)
SavePosition ==
    /\ pc = "idle"
    /\ saves < MaxSaves
    /\ \E fen \in CsvFens, rp \in RatingPairs, idx \in CarriedIdx :
        LET position_df == CsvPosition(fen, rp, idx)
        IN /\ store' = save_position_to_csv(position_df, store)
           /\ buffer' = Emit(buffer, SaveLogs(position_df, store))
           /\ saved' = Append(saved, [FEN |-> fen, CohortPair |-> CohortPairOf(rp[1], rp[2]),
                                      carried |-> idx, rows |-> Len(position_df)])
    /\ before' = store
    /\ saves' = saves + 1
    /\ UNCHANGED <<runtime, script, walk, base_rating, target_rating, min_games, call, results, draws, bank,
                   written>>

CsvNext == SavePosition

CsvSpec == CsvInit /\ [][CsvNext]_vars

RowsOf(file) == IF file = None THEN <<>> ELSE file[1]

IdxOf(rows) == {rows[i].PositionIdx : i \in 1..Len(rows)}

LargestIdx(rows) == CHOOSE m \in IdxOf(rows) : \A n \in IdxOf(rows) : n <= m

KeyIn(rows, fen, pair) ==
    \E i \in 1..Len(rows) : rows[i].FEN = fen /\ rows[i].CohortPair = pair

\* the last call saved a position the file already held
LastWasDuplicate ==
    /\ saves > 0
    /\ KeyIn(RowsOf(before), saved[Len(saved)].FEN, saved[Len(saved)].CohortPair)

\* the last call saved a position the file did not hold
LastWasNew ==
    /\ saves > 0
    /\ ~KeyIn(RowsOf(before), saved[Len(saved)].FEN, saved[Len(saved)].CohortPair)

\* C18: the file never holds two PositionIdx values for one FEN and
\* CohortPair; saving a position whose FEN and CohortPair the file holds
\* leaves its rows and its number of PositionIdx values unchanged.
C18_NoDuplicatePositions ==
    /\ \A i \in 1..Len(RowsOf(store)), j \in 1..Len(RowsOf(store)) :
          (/\ RowsOf(store)[i].FEN = RowsOf(store)[j].FEN
           /\ RowsOf(store)[i].CohortPair = RowsOf(store)[j].CohortPair)
              => RowsOf(store)[i].PositionIdx = RowsOf(store)[j].PositionIdx
    /\ LastWasDuplicate =>
          /\ RowsOf(store) = RowsOf(before)
          /\ Cardinality(IdxOf(RowsOf(store))) = Cardinality(IdxOf(RowsOf(before)))

\* a position saved a second time, under another carried PositionIdx
C18_Witness ==
    /\ saves >= 2
    /\ LastWasDuplicate
    /\ saved[Len(saved)].carried = 99
    /\ \E k \in 1..(Len(saved) - 1) :
          /\ saved[k].FEN = saved[Len(saved)].FEN
          /\ saved[k].CohortPair = saved[Len(saved)].CohortPair
          /\ saved[k].carried = 0
    /\ store = before

\* C19: the PositionIdx of the incoming rows is ignored; a new position
\* gets 0 when there is no file and the largest PositionIdx of the file
\* plus one otherwise, so positions of different (FEN, CohortPair) have
\* different PositionIdx values and each such save adds exactly one
\* PositionIdx value and keeps every earlier row.
C19_FreshIndexPerNewPosition ==
    /\ LastWasNew =>
          LET old == RowsOf(before)
              new == RowsOf(store)
              n == saved[Len(saved)].rows
              idx == IF before = None THEN 0 ELSE LargestIdx(old) + 1
          IN /\ Len(new) = Len(old) + n
             /\ SubSeq(new, 1, Len(old)) = old
             /\ \A i \in (Len(old) + 1)..Len(new) :
                   /\ new[i].PositionIdx = idx
                   /\ new[i].FEN = saved[Len(saved)].FEN
                   /\ new[i].CohortPair = saved[Len(saved)].CohortPair
             /\ idx \notin IdxOf(old)
             /\ Cardinality(IdxOf(new)) = Cardinality(IdxOf(old)) + 1
    /\ \A i \in 1..Len(RowsOf(store)), j \in 1..Len(RowsOf(store)) :
          (\/ RowsOf(store)[i].FEN # RowsOf(store)[j].FEN
           \/ RowsOf(store)[i].CohortPair # RowsOf(store)[j].CohortPair)
              => RowsOf(store)[i].PositionIdx # RowsOf(store)[j].PositionIdx

\* three different positions saved to a new file, each carrying 99
C19_Witness ==
    /\ saves = 3
    /\ \A k \in 1..3 : saved[k].carried = 99
    /\ \A j \in 1..3, k \in 1..3 :
          j # k => (saved[j].FEN # saved[k].FEN \/ saved[j].CohortPair # saved[k].CohortPair)
    /\ IdxOf(RowsOf(store)) = {0, 1, 2}
    /\ LastWasNew

(***************************************************************************)
(* puzzle_bank.py: add_puzzle and save_bank on one file.  A puzzle is a    *)
(* dict; the model keeps its "fen" and whether every value of it is of a   *)
(* type json can encode (kind "json") or not (kind "object", e.g. a numpy  *)
(* integer or a DataFrame).  The file holds text, a sequence of tokens.    *)
(* json.dump writes the text chunk by chunk, so what it wrote before a     *)
(* TypeError stays in the file, which open(file_path, "w") had truncated.  *)
(***************************************************************************)
MaxBankCalls == 3   \* calls of add_puzzle and save_bank

Puzzle(fen, kind) == [fen |-> fen, kind |-> kind]

Puzzles == {Puzzle("fen1", "json"), Puzzle("fen2", "json"), Puzzle("fen3", "object")}

\* the lists save_bank is called with
PuzzleLists ==
    {<<>>,
     <<Puzzle("fen1", "json")>>,
     <<Puzzle("fen2", "json"), Puzzle("fen1", "json")>>,
     <<Puzzle("fen1", "json"), Puzzle("fen3", "object")>>}

\* the index of the first puzzle json cannot encode, 0 if there is none
FirstUnencodable(puzzles) ==
    IF \E i \in 1..Len(puzzles) : puzzles[i].kind # "json"
    THEN CHOOSE i \in 1..Len(puzzles) :
            /\ puzzles[i].kind # "json"
            /\ \A j \in 1..(i - 1) : puzzles[j].kind = "json"
    ELSE 0

\* the text of the items puzzles[1..n], separated by commas
RECURSIVE JsonItems(_, _)
JsonItems(puzzles, n) ==
    IF n = 0 THEN <<>>
    ELSE JsonItems(puzzles, n - 1)
         \o (IF n > 1 THEN <<",">> ELSE <<>>)
         \o <<"{", puzzles[n].fen, "}">>

\* json.dump(puzzles, f, indent=2): the text written and whether it raised
JsonDump(puzzles) ==
    LET bad == FirstUnencodable(puzzles)
    IN IF bad = 0
       THEN [text |-> <<"[">> \o JsonItems(puzzles, Len(puzzles)) \o <<"]">>, raised |-> FALSE]
       ELSE [text |-> <<"[">> \o JsonItems(puzzles, bad - 1)
                      \o (IF bad > 1 THEN <<",">> ELSE <<>>)
                      \o <<"{", puzzles[bad].fen>>,
             raised |-> TRUE]

\* the items of the text between the brackets, None if it is not a list of
\* complete items
RECURSIVE ParseItems(_)
ParseItems(tokens) ==
    IF tokens = <<>> THEN Some(<<>>)
    ELSE IF Len(tokens) >= 3 /\ tokens[1] = "{" /\ tokens[3] = "}"
               /\ tokens[2] \notin {"{", "}", "[", "]", ","}
    THEN LET rest == SubSeq(tokens, 4, Len(tokens))
             more == IF rest = <<>> THEN Some(<<>>)
                     ELSE IF rest[1] = "," /\ Len(rest) > 1
                     THEN ParseItems(Tail(rest))
                     ELSE None
         IN IF more = None THEN None
            ELSE Some(<<Puzzle(tokens[2], "json")>> \o more[1])
    ELSE None

\* json.load(f): Some(the list) or None when it raises JSONDecodeError
JsonLoad(text) ==
    IF Len(text) >= 2 /\ text[1] = "[" /\ text[Len(text)] = "]"
    THEN ParseItems(SubSeq(text, 2, Len(text) - 1))
    ELSE None

\* add_puzzle(puzzle, filename): the file afterwards.  Every exception is
\* caught and logged (lines 32-33).
add_puzzle(puzzle, file) ==
    IF file # None /\ JsonLoad(file[1]) = None
    THEN file
    ELSE LET puzzles == IF file # None THEN JsonLoad(file[1])[1] ELSE <<>>
         IN Some(JsonDump(Append(puzzles, puzzle)).text)

\* the records add_puzzle logs
AddPuzzleLogs(puzzle, file) ==
    (IF file # None
     THEN << <<"Reading", "existing", "puzzles", "from", "<filename>">> >>
     ELSE <<>>)
    \o (IF file # None /\ JsonLoad(file[1]) = None
        THEN << <<"Error", "adding", "puzzle", "to", "<filename>:", "<e>">> >>
        ELSE << <<"Writing", "<n>", "puzzles", "to", "<filename>">> >>
             \o (IF puzzle.kind # "json"
                 THEN << <<"Error", "adding", "puzzle", "to", "<filename>:", "<e>">> >>
                 ELSE << <<"Added", "puzzle", "to", "<filename>", "(total:", "<n>)">> >>))

\* save_bank(puzzles, filename): the file afterwards
save_bank(puzzles, file) == Some(JsonDump(puzzles).text)

\* the records save_bank logs
SaveBankLogs(puzzles) ==
    << <<"Writing", "<n>", "puzzles", "to", "<filename>">> >>
    \o (IF JsonDump(puzzles).raised
        THEN << <<"Error", "saving", "puzzles", "to", "<filename>:", "<e>">> >>
        ELSE << <<"Saved", "<n>", "puzzles", "to", "<filename>">> >>)

BankInit ==
    /\ sort_ties \in TieOrders
    /\ ScriptIdle
    /\ \E rp \in RatingPairs : base_rating = rp[1] /\ target_rating = rp[2]
    /\ min_games = MIN_GAMES
    /\ WalkIdle
    /\ store = None
    /\ before = None
    /\ saves = 0
    /\ saved = <<>>
    /\ call = None
    /\ results = <<>>
    /\ draws = 0
    /\ bank = None
    /\ written = <<>>

\* one call add_puzzle(puzzle)
AddPuzzle ==
    /\ pc = "idle"
    /\ Len(saved) < MaxBankCalls
    /\ \E puzzle \in Puzzles :
        /\ bank' = add_puzzle(puzzle, bank)
        /\ buffer' = Emit(buffer, AddPuzzleLogs(puzzle, bank))
        /\ written' = Append(written, puzzle)
        /\ saved' = Append(saved, "add_puzzle")
    /\ UNCHANGED <<runtime, script, walk, base_rating, target_rating, min_games, store, saves, call, results,
                   draws, before>>

\* one call save_bank(puzzles)
SaveBank ==
    /\ pc = "idle"
    /\ Len(saved) < MaxBankCalls
    /\ \E puzzles \in PuzzleLists :
        /\ bank' = save_bank(puzzles, bank)
        /\ buffer' = Emit(buffer, SaveBankLogs(puzzles))
        /\ written' = puzzles
        /\ saved' = Append(saved, "save_bank")
    /\ UNCHANGED <<runtime, script, walk, base_rating, target_rating, min_games, store, saves, call, results,
                   draws, before>>

BankNext ==
    \/ AddPuzzle
    \/ SaveBank

BankSpec == BankInit /\ [][BankNext]_vars

\* what a reader of the file gets, with every puzzle as json gives it back
AsRead(puzzles) == [i \in 1..Len(puzzles) |-> Puzzle(puzzles[i].fen, "json")]

\* C20: after any sequence of add_puzzle and save_bank calls the file
\* holds the list of the last save_bank (the empty list if there was none)
\* followed by every puzzle added since, in call order.
C20_BankHoldsSavedThenAdded ==
    saved # <<>> =>
        /\ bank # None
        /\ JsonLoad(bank[1]) = Some(AsRead(written))

(***************************************************************************)
(* scripts/generate_positions.py: main, with src/csv_utils.py sort_csv and *)
(* scripts/reorganize_positions.py reorganize_positions_csv.  One call of  *)
(* generate_and_save_positions is one step here: the positions it found,   *)
(* each given to save_position_to_csv in the order found, and its return   *)
(* or its exception.  The log records of main are left out.                *)
(***************************************************************************)
MaxWalks == 2       \* num_walks

\* int(s) for the rating strings
IntOf(s) ==
    CASE s = "1400" -> 1400
      [] s = "1600" -> 1600
      [] s = "1800" -> 1800
      [] s = "2000" -> 2000

\* int(x.split("-")[0]) of sort_csv; extract_lower_rating of
\* reorganize_positions.py (a CohortPair that does not parse is not modelled)
extract_lower_rating(cohort_pair) == IntOf(cohort_pair[1])

\* the order of two sort keys, each a tuple of numbers, first column first
KeyLess(a, b) == \E k \in 1..Len(a) : a[k] < b[k] /\ \A j \in 1..(k - 1) : a[j] = b[j]

\* rows in the order of their keys (keys[i] is the key of rows[i]); rows of
\* equal key keep their order, or end in the opposite order when reversed
SortedBy(rows, keys, reversed) ==
    LET n == Len(rows)
        Pos(i) == 1 + Cardinality({j \in 1..n :
                        /\ j # i
                        /\ \/ KeyLess(keys[j], keys[i])
                           \/ /\ keys[j] = keys[i]
                              /\ IF reversed THEN j > i ELSE j < i})
    IN [p \in 1..n |-> rows[CHOOSE i \in 1..n : Pos(i) = p]]

\* df["lower_bound"]
lower_bound(rows) == [i \in 1..Len(rows) |-> <<extract_lower_rating(rows[i].CohortPair)>>]

\* sort_csv: df.sort_values(by="lower_bound"), default kind="quicksort"
sort_csv(rows) ==
    SortedBy(rows, lower_bound(rows), Len(rows) > SmallSort /\ sort_ties = "reversed")

\* df_reset[["PositionIdx", "CohortPair", "lower_rating"]].drop_duplicates()
unique_positions(rows) ==
    LET triple(i) == [PositionIdx |-> rows[i].PositionIdx,
                      CohortPair |-> rows[i].CohortPair,
                      lower_rating |-> extract_lower_rating(rows[i].CohortPair)]
        first == {i \in 1..Len(rows) : \A j \in 1..(i - 1) : triple(j) # triple(i)}
        nth(k) == CHOOSE i \in first : Cardinality({j \in first : j < i}) = k - 1
    IN [k \in 1..Cardinality(first) |-> triple(nth(k))]

\* the keys of sort_values(["lower_rating", "PositionIdx"])
RatingThenIdx(rows) == [i \in 1..Len(rows) |-> <<rows[i].lower_rating, rows[i].PositionIdx>>]

\* old_to_new_mapping[old_idx]: i + 1 for the last i whose row has old_idx
old_to_new_mapping(rows, old_idx) ==
    LET unique_positions_sorted ==
            SortedBy(unique_positions(rows), RatingThenIdx(unique_positions(rows)), FALSE)
        at == {i \in 1..Len(unique_positions_sorted) :
                  unique_positions_sorted[i].PositionIdx = old_idx}
    IN CHOOSE i \in at : \A j \in at : j <= i

CohortRank(c) == IF c = "base" THEN 0 ELSE 1

\* the keys of sort_index() on the index (Cohort, Row, PositionIdx)
IndexOf(rows) ==
    [i \in 1..Len(rows) |-> <<CohortRank(rows[i].Cohort), rows[i].Row, rows[i].PositionIdx>>]

\* reorganize_positions_csv: the rows it writes to output_path
reorganize_positions_csv(rows) ==
    LET df_reset == [i \in 1..Len(rows) |->
                        [rows[i] EXCEPT !.PositionIdx =
                                            old_to_new_mapping(rows, rows[i].PositionIdx)]]
    IN SortedBy(df_reset, IndexOf(df_reset), FALSE)

\* count_positions
count_positions(file) == UniquePositionIdx(file)

\* the positions one walk can find, in the order it reaches them
WalkFinds ==
    {<<>>, <<Fen(<<"w1">>)>>, <<Fen(<<"w2">>)>>, <<Fen(<<"w1", "b1">>)>>,
     <<Fen(<<"w1">>), Fen(<<"w1", "b1">>)>>}

\* positions.csv after the save_position_to_csv calls of one walk
RECURSIVE SaveFound(_, _, _)
SaveFound(found, rp, file) ==
    IF found = <<>> THEN file
    ELSE LET n == Len(found)
         IN save_position_to_csv(CsvPosition(found[n], rp, n - 1),
                                 SaveFound(SubSeq(found, 1, n - 1), rp, file))

\* positions.csv as main can find it: absent, left by an earlier run of the
\* same or of another cohort pair, or left by reorganize_positions.main
MainStores ==
    {None,
     Some(ExistingStore),
     Some(CsvPosition(Fen(<<"w2">>), <<"1600", "2000">>, 0)),
     Some(CsvPosition(Fen(<<"w1">>), <<"1400", "1800">>, 1))}

MainInit ==
    /\ sort_ties \in TieOrders
    /\ main_pc = "start"
    /\ num_walks \in 0..MaxWalks
    /\ walks_done = 0
    /\ initial_puzzle_count = -1
    /\ new_positions_count = 0
    /\ total_puzzle_count = -1
    /\ reorganized = None
    /\ \E rp \in RatingPairs : base_rating = rp[1] /\ target_rating = rp[2]
    /\ min_games = MIN_GAMES
    /\ WalkIdle
    /\ store \in MainStores
    /\ before = None
    /\ saves = 0
    /\ saved = <<>>
    /\ call = None
    /\ results = <<>>
    /\ draws = 0
    /\ bank = None
    /\ written = <<>>

aside == <<walk, base_rating, target_rating, min_games, buffer, saves, call, results, draws,
           before, saved, bank, written>>

\* main, lines 62-86: the file is rewritten with the same rows under the
\* same three-level index, and its positions are counted
MainStart ==
    /\ main_pc = "start"
    /\ initial_puzzle_count' = count_positions(store)
    /\ new_positions_count' = 0
    /\ main_pc' = "walks"
    /\ UNCHANGED <<runtime, aside, store, num_walks, walks_done, total_puzzle_count, reorganized>>

\* lines 87-95: one walk that returns its list
WalkReturns ==
    /\ main_pc = "walks"
    /\ walks_done < num_walks
    /\ \E positions \in WalkFinds :
        /\ store' = SaveFound(positions, <<base_rating, target_rating>>, store)
        /\ new_positions_count' = new_positions_count + Len(positions)
    /\ walks_done' = walks_done + 1
    /\ UNCHANGED <<runtime, aside, main_pc, num_walks, initial_puzzle_count, total_puzzle_count,
                   reorganized>>

\* line 89: a walk that ends by the exception of push_uci, which main does
\* not catch
WalkRaises ==
    /\ main_pc = "walks"
    /\ walks_done < num_walks
    /\ \E positions \in WalkFinds :
        store' = SaveFound(positions, <<base_rating, target_rating>>, store)
    /\ main_pc' = "raised"
    /\ UNCHANGED <<runtime, aside, num_walks, walks_done, initial_puzzle_count,
                   new_positions_count, total_puzzle_count, reorganized>>

\* lines 97-99: sort_csv(); pd.read_csv raises when there is no file
SortCsv ==
    /\ main_pc = "walks"
    /\ walks_done = num_walks
    /\ IF store = None
       THEN /\ main_pc' = "raised"
            /\ UNCHANGED store
       ELSE /\ store' = Some(sort_csv(store[1]))
            /\ main_pc' = "sorted"
    /\ UNCHANGED <<runtime, aside, num_walks, walks_done, initial_puzzle_count,
                   new_positions_count, total_puzzle_count, reorganized>>

\* lines 101-109: reorganize_positions_csv() with its default paths, which
\* reads output/positions.csv and writes output/positions_reorganized.csv
Reorganize ==
    /\ main_pc = "sorted"
    /\ new_positions_count > 0
    /\ reorganized' = (IF store = None THEN reorganized
                       ELSE Some(reorganize_positions_csv(store[1])))
    /\ main_pc' = "count"
    /\ UNCHANGED <<runtime, aside, store, num_walks, walks_done, initial_puzzle_count,
                   new_positions_count, total_puzzle_count>>

\* lines 111-120: count_positions() of output/positions.csv
CountTotal ==
    /\ \/ main_pc = "count"
       \/ main_pc = "sorted" /\ ~(new_positions_count > 0)
    /\ total_puzzle_count' = count_positions(store)
    /\ main_pc' = "done"
    /\ UNCHANGED <<runtime, aside, store, num_walks, walks_done, initial_puzzle_count,
                   new_positions_count, reorganized>>

MainNext ==
    \/ MainStart
    \/ WalkReturns
    \/ WalkRaises
    \/ SortCsv
    \/ Reorganize
    \/ CountTotal

MainSpec == MainInit /\ [][MainNext]_vars

\* the rows are in the order of the lower rating of their CohortPair
OrderedByLowerRating(rows) ==
    \A i \in 1..Len(rows), j \in 1..Len(rows) :
        i < j => extract_lower_rating(rows[i].CohortPair) <= extract_lower_rating(rows[j].CohortPair)

\* the PositionIdx values are exactly 1..N for the N positions of the rows
NumberedFromOne(rows) ==
    IdxOf(rows) = 1..Cardinality({<<rows[i].FEN, rows[i].CohortPair>> : i \in 1..Len(rows)})

\* C30: when main has finished a run that generated at least one position,
\* output/positions.csv is ordered by the lower rating of the CohortPair,
\* its PositionIdx values are exactly 1..N, and the total main reports is
\* the number of positions of that file.
C30_StoreReorganizedAfterRun ==
    (main_pc = "done" /\ new_positions_count > 0) =>
        /\ store # None
        /\ OrderedByLowerRating(RowsOf(store))
        /\ NumberedFromOne(RowsOf(store))
        /\ total_puzzle_count = UniquePositionIdx(store)
====
